---------------------------- MODULE Spec2Model ----------------------------
(***************************************************************************)
(* Coordination layer of noode: the consensus/veto engine                  *)
(* (protocols/consensus.py), the message envelope (protocols/messages.py)  *)
(* and the orchestrator (core/orchestrator.py).                            *)
(*                                                                         *)
(* Python strings that the code inspects (lower(), substring tests) are    *)
(* sequences of one-character strings, so that case folding and substring  *)
(* search are computed, not assumed.  Enum members are TLA+ strings.       *)
(* Confidences are counted in twentieths (20 = 1.0), which holds 0.5, 0.6,  *)
(* 0.75 and 1.0.  The weights compared in get_result differ by at least a  *)
(* twentieth whenever they differ, so the integer comparisons agree with   *)
(* the float comparisons of the code.                                      *)
(***************************************************************************)
EXTENDS Integers, Sequences, FiniteSets, TLC

VARIABLES
    \* ---- ConsensusBuilder (protocols/consensus.py) ----
    decision_id,          \* ConsensusBuilder.decision_id
    required_approvals,   \* ConsensusBuilder.required_approvals
    allow_veto,           \* ConsensusBuilder.allow_veto
    votes,                \* ConsensusBuilder._votes
    vetoed,               \* ConsensusBuilder._vetoed
    veto_reason,          \* ConsensusBuilder._veto_reason
    vote_log,             \* the events the last add_vote call logged
    \* ---- AgentMessage (protocols/messages.py) ----
    messages,             \* the AgentMessage objects constructed so far
    reply_of,             \* for each of them, the object create_reply was called on
                          \* to make it (0: constructed directly)
    \* ---- Orchestrator (core/orchestrator.py) ----
    agents,               \* Orchestrator._agents: the registered names, in dict order
    inbox,                \* BaseAgent._message_queue of every agent object
    projects,             \* Orchestrator._projects: the ProjectStates, in dict order
    tasks,                \* the SubTask objects that exist
    ret,                  \* what the last call returned, and of which operation
    running,              \* Orchestrator._running
    pc,                   \* where run() is: not called, at the get of a queue, returned
    task_queue,           \* Orchestrator._task_queue: the SubTask objects queued
    message_queue,        \* Orchestrator._message_queue: the messages queued
    caught,               \* how often run() has logged "orchestrator_error"
    task_outcome,         \* for each SubTask object, what run() last did with it
    message_outcome,      \* for each message queued, what run() did with it
    \* ---- BaseAgent (core/base_agent.py) ----
    state,                \* BaseAgent.state of every agent object
    thinking              \* for every agent object, its think calls in progress

consVars == <<decision_id, required_approvals, allow_veto, votes, vetoed, veto_reason,
              vote_log>>
msgVars == <<messages, reply_of>>
orchVars == <<agents, inbox, projects, tasks, ret>>
runVars == <<running, pc, task_queue, message_queue, caught, task_outcome,
             message_outcome>>

agentVars == <<state, thinking>>

vars == <<consVars, msgVars, orchVars, runVars, agentVars>>

\* Python's None.
None == "None"

\* Python's None where a string is held as a sequence of characters.
NoneStr == <<"None">>

-----------------------------------------------------------------------------
(* Strings *)

\* str.lower() on one character (ASCII letters; everything else is kept).
LowerChar(c) ==
    CASE c = "A" -> "a" [] c = "B" -> "b" [] c = "C" -> "c" [] c = "D" -> "d"
      [] c = "E" -> "e" [] c = "F" -> "f" [] c = "G" -> "g" [] c = "H" -> "h"
      [] c = "I" -> "i" [] c = "J" -> "j" [] c = "K" -> "k" [] c = "L" -> "l"
      [] c = "M" -> "m" [] c = "N" -> "n" [] c = "O" -> "o" [] c = "P" -> "p"
      [] c = "Q" -> "q" [] c = "R" -> "r" [] c = "S" -> "s" [] c = "T" -> "t"
      [] c = "U" -> "u" [] c = "V" -> "v" [] c = "W" -> "w" [] c = "X" -> "x"
      [] c = "Y" -> "y" [] c = "Z" -> "z" [] OTHER -> c

\* str.lower()
Lower(s) == [i \in 1..Len(s) |-> LowerChar(s[i])]

\* Python's `sub in s` for strings.
Contains(sub, s) ==
    \E k \in 0..(Len(s) - Len(sub)) :
        \A i \in 1..Len(sub) : s[k + i] = sub[i]

STR_security == <<"s","e","c","u","r","i","t","y">>
security_agent == <<"s","e","c","u","r","i","t","y","_","a","g","e","n","t">>
Security_Lead == <<"S","e","c","u","r","i","t","y","_","L","e","a","d">>
agent_a == <<"a","g","e","n","t","_","a">>

-----------------------------------------------------------------------------
(* Agents, SubTasks and ProjectStates *)

research == <<"r","e","s","e","a","r","c","h">>
backend == <<"b","a","c","k","e","n","d">>
STR_unknown == <<"u","n","k","n","o","w","n">>
STR_orchestrator == <<"o","r","c","h","e","s","t","r","a","t","o","r">>
CAP_searching_documentation ==
    <<"s","e","a","r","c","h","i","n","g"," ","d","o","c","u","m","e","n",
      "t","a","t","i","o","n">>
CAP_api_design == <<"a","p","i"," ","d","e","s","i","g","n">>
CAP_API_Design == <<"A","P","I"," ","D","e","s","i","g","n">>
CAP_threat_modeling ==
    <<"t","h","r","e","a","t"," ","m","o","d","e","l","i","n","g">>

\* The agent objects that callers construct and register, by name.
AgentPool == {research, backend, security_agent}

\* BaseAgent.capabilities of each agent object.
Capabilities(name) ==
    CASE name = research -> <<CAP_searching_documentation>>
      [] name = backend -> <<CAP_api_design>>
      [] name = security_agent -> <<CAP_threat_modeling, CAP_API_Design>>
      [] name = STR_unknown -> <<>>

\* TaskStatus
PENDING == "pending"
ASSIGNED == "assigned"
IN_PROGRESS == "in_progress"
COMPLETED == "completed"
FAILED == "failed"
BLOCKED == "blocked"

\* SubTask(...): the dataclass constructor with its defaults (the timestamps,
\* which no operation reads, are left out).
SubTask(task_id, parent_id, description, assigned_agent, dependencies) ==
    [task_id |-> task_id,
     parent_id |-> parent_id,
     description |-> description,
     assigned_agent |-> assigned_agent,
     status |-> PENDING,
     dependencies |-> dependencies,
     result |-> None]

\* ProjectState(project_id, name, description).  tasks maps a task id to the
\* SubTask object stored under it.
ProjectState(project_id, name, description) ==
    [project_id |-> project_id,
     name |-> name,
     description |-> description,
     tasks |-> <<>>,
     artifacts |-> <<>>,
     metadata |-> <<>>]

\* The last call returned nothing (None).
NoReturn == [op |-> "none", value |-> None]

\* Nothing was put on a queue of the orchestrator.
NotQueued == [at |-> 0, result |-> "none"]

\* Orchestrator.__init__: the queues are empty and run() has not been called.
NoRun ==
    /\ running = FALSE
    /\ pc = "idle"
    /\ task_queue = <<>>
    /\ message_queue = <<>>
    /\ caught = 0
    /\ task_outcome = <<>>
    /\ message_outcome = <<>>

\* AgentState
IDLE == "idle"
THINKING == "thinking"
ACTING == "acting"
WAITING == "waiting"
ERROR == "error"
AgentState == {IDLE, THINKING, ACTING, WAITING, ERROR}

\* BaseAgent.__init__ of the agent objects in S: the state is IDLE, and no
\* call is in progress.
NewAgents(S) ==
    /\ state = [a \in S |-> IDLE]
    /\ thinking = [a \in S |-> 0]

\* Orchestrator.__init__, and agent objects with empty message queues.
InitOrchestrator ==
    /\ agents = <<>>
    /\ inbox = [a \in AgentPool |-> <<>>]
    /\ NewAgents(AgentPool)
    /\ projects = <<>>
    /\ tasks = <<>>
    /\ ret = NoReturn
    /\ NoRun

\* `name in self._agents`
Registered(name) == \E i \in 1..Len(agents) : agents[i] = name

\* `project_id in self._projects`
ProjectExists(project_id) ==
    \E i \in 1..Len(projects) : projects[i].project_id = project_id

\* The place of a project in self._projects.
ProjectIndex(project_id) ==
    CHOOSE i \in 1..Len(projects) : projects[i].project_id = project_id

\* A sequence without its i-th element.
RemoveAt(seq, i) == SubSeq(seq, 1, i - 1) \o SubSeq(seq, i + 1, Len(seq))

-----------------------------------------------------------------------------
(* ConsensusBuilder *)

\* VoteType
APPROVE == "approve"
REJECT == "reject"
ABSTAIN == "abstain"
REQUEST_CHANGES == "request_changes"
VoteType == {APPROVE, REJECT, ABSTAIN, REQUEST_CHANGES}

\* Confidence 1.0 in twentieths.
FullConfidence == 20

\* Largest required_approvals a builder is constructed with.
MaxRequired == 2

Voters == {security_agent, Security_Lead, agent_a}
ConfValues == {10, FullConfidence}

\* Vote.concerns: the concerns a voter has, when it states any.
ConcernsOf(voter) ==
    CASE voter = security_agent -> <<"SQL injection in user input", "No rate limit">>
      [] voter = Security_Lead -> <<"Secrets in the repository", "No audit log">>
      [] OTHER -> <<"Too slow", "No tests">>

ConcernLists == {<<>>} \cup {ConcernsOf(voter) : voter \in Voters}

\* Vote.reasoning: the text a voter gives with a vote of each type.
ReasoningOf(vote_type) ==
    CASE vote_type = APPROVE -> <<"Looks good">>
      [] vote_type = REJECT -> <<"Not like this">>
      [] vote_type = ABSTAIN -> <<"No opinion">>
      [] vote_type = REQUEST_CHANGES -> <<"Fix this first">>

\* The Vote objects passed to add_vote.  Approve and Reject votes come with
\* every confidence of ConfValues, Abstain and RequestChanges votes with 1.0.
VoteInputs ==
    { v \in [voter : Voters, vote_type : VoteType, confidence : ConfValues,
             reasoning : {ReasoningOf(vt) : vt \in VoteType},
             concerns : ConcernLists] :
        /\ v.reasoning = ReasoningOf(v.vote_type)
        /\ v.concerns \in {<<>>, ConcernsOf(v.voter)}
        /\ v.vote_type \in {ABSTAIN, REQUEST_CHANGES} => v.confidence = FullConfidence }

\* No AgentMessage has been constructed.
NoMessages ==
    /\ messages = <<>>
    /\ reply_of = <<>>

\* No ConsensusBuilder is in use.
NoConsensus ==
    /\ decision_id = None
    /\ required_approvals = 0
    /\ allow_veto = FALSE
    /\ votes = <<>>
    /\ vetoed = FALSE
    /\ veto_reason = NoneStr
    /\ vote_log = <<>>

\* ConsensusBuilder.__init__
InitConsensus ==
    /\ NoMessages
    /\ InitOrchestrator
    /\ decision_id = "d1"
    /\ required_approvals \in 1..MaxRequired
    /\ allow_veto \in BOOLEAN
    /\ votes = <<>>
    /\ vetoed = FALSE
    /\ veto_reason = NoneStr
    /\ vote_log = <<>>

\* add_vote without the duplicate scan.
HasVoted_NoScan(w) == FALSE

\* The duplicate scan at the head of add_vote.
HasVoted(w) == \E i \in 1..Len(votes) : votes[i].voter = w

\* The veto test of add_vote without the test of the voter's name.
IsVeto_AnyVoter(vote) ==
    /\ allow_veto
    /\ vote.vote_type = REJECT
    /\ Len(vote.concerns) > 0

\* The veto test of add_vote.
IsVeto(vote) ==
    /\ allow_veto
    /\ vote.vote_type = REJECT
    /\ Contains(STR_security, Lower(vote.voter))
    /\ Len(vote.concerns) > 0

\* f"Security veto: {vote.concerns[0]}"
VetoReason(vote) == <<"Security veto: ", vote.concerns[1]>>

\* ConsensusBuilder.add_vote, a later vote of the same voter replacing the first.
AddVote_LastWins(vote) ==
    /\ UNCHANGED <<decision_id, required_approvals, allow_veto, msgVars, orchVars, runVars, agentVars>>
    /\ votes' = IF HasVoted(vote.voter)
                THEN [i \in 1..Len(votes) |->
                        IF votes[i].voter = vote.voter THEN vote ELSE votes[i]]
                ELSE Append(votes, vote)
    /\ IF IsVeto(vote)
       THEN /\ vetoed' = TRUE
            /\ veto_reason' = VetoReason(vote)
            /\ vote_log' = <<"decision_vetoed", "vote_recorded">>
       ELSE /\ UNCHANGED <<vetoed, veto_reason>>
            /\ vote_log' = <<"vote_recorded">>

\* ConsensusBuilder.add_vote
AddVote(vote) ==
    /\ UNCHANGED <<decision_id, required_approvals, allow_veto, msgVars, orchVars, runVars, agentVars>>
    /\ IF HasVoted(vote.voter)
       THEN /\ vote_log' = <<"duplicate_vote">>
            /\ UNCHANGED <<votes, vetoed, veto_reason>>
       ELSE /\ votes' = Append(votes, vote)
            /\ IF IsVeto(vote)
               THEN /\ vetoed' = TRUE
                    /\ veto_reason' = VetoReason(vote)
                    /\ vote_log' = <<"decision_vetoed", "vote_recorded">>
               ELSE /\ UNCHANGED <<vetoed, veto_reason>>
                    /\ vote_log' = <<"vote_recorded">>

\* sum(v.confidence for v in self._votes if v.vote_type == vt)
RECURSIVE SumConfidence(_, _)
SumConfidence(vs, vt) ==
    IF vs = <<>> THEN 0
    ELSE (IF Head(vs).vote_type = vt THEN Head(vs).confidence ELSE 0)
         + SumConfidence(Tail(vs), vt)

\* [v.reasoning for v in self._votes if v.vote_type in types]
RECURSIVE Reasonings(_, _)
Reasonings(vs, types) ==
    IF vs = <<>> THEN <<>>
    ELSE (IF Head(vs).vote_type \in types THEN <<Head(vs).reasoning>> ELSE <<>>)
         \o Reasonings(Tail(vs), types)

\* The conditions loop of get_result with append in the place of extend, and
\* the first concern of the vote for the list.
RECURSIVE Conditions_AppendFirst(_)
Conditions_AppendFirst(vs) ==
    IF vs = <<>> THEN <<>>
    ELSE (IF Head(vs).vote_type = REQUEST_CHANGES /\ Head(vs).concerns # <<>>
          THEN <<Head(vs).concerns[1]>> ELSE <<>>)
         \o Conditions_AppendFirst(Tail(vs))

\* The conditions loop of get_result.
RECURSIVE Conditions(_)
Conditions(vs) ==
    IF vs = <<>> THEN <<>>
    ELSE (IF Head(vs).vote_type = REQUEST_CHANGES THEN Head(vs).concerns ELSE <<>>)
         \o Conditions(Tail(vs))

\* The approval test with a tie against the rejections counted as approval.
Approved_TieApproves(approvals, rejections) ==
    /\ approvals >= required_approvals * FullConfidence
    /\ approvals >= rejections

\* approvals >= self.required_approvals and approvals > rejections
Approved(approvals, rejections) ==
    /\ approvals >= required_approvals * FullConfidence
    /\ approvals > rejections

\* get_result listing, when vetoed, the reasoning of the Reject votes only, as
\* it does when not vetoed.
GetResult_VetoListsRejectsOnly ==
    LET approvals == SumConfidence(votes, APPROVE)
        rejections == SumConfidence(votes, REJECT)
        approved == ~vetoed /\ Approved(approvals, rejections)
    IN  [decision_id |-> decision_id,
         approved |-> approved,
         votes |-> votes,
         final_decision |-> IF vetoed THEN veto_reason
                            ELSE IF approved THEN "Approved" ELSE "Rejected",
         dissenting_opinions |-> Reasonings(votes, {REJECT}),
         conditions |-> IF vetoed THEN <<>> ELSE Conditions(votes)]

\* get_result without the veto branch.
GetResult_NoVetoBranch ==
    LET approvals == SumConfidence(votes, APPROVE)
        rejections == SumConfidence(votes, REJECT)
        approved == Approved(approvals, rejections)
    IN  [decision_id |-> decision_id,
         approved |-> approved,
         votes |-> votes,
         final_decision |-> IF approved THEN "Approved" ELSE "Rejected",
         dissenting_opinions |-> Reasonings(votes, {REJECT}),
         conditions |-> Conditions(votes)]

\* ConsensusBuilder.get_result
GetResult ==
    IF vetoed
    THEN [decision_id |-> decision_id,
          approved |-> FALSE,
          votes |-> votes,
          final_decision |-> IF veto_reason # NoneStr THEN veto_reason ELSE "Vetoed",
          dissenting_opinions |-> Reasonings(votes, {REJECT, REQUEST_CHANGES}),
          conditions |-> <<>>]
    ELSE LET approvals == SumConfidence(votes, APPROVE)
             rejections == SumConfidence(votes, REJECT)
             approved == Approved(approvals, rejections)
         IN  [decision_id |-> decision_id,
              approved |-> approved,
              votes |-> votes,
              final_decision |-> IF approved THEN "Approved" ELSE "Rejected",
              dissenting_opinions |-> Reasonings(votes, {REJECT}),
              conditions |-> Conditions(votes)]

\* ConsensusBuilder.is_complete
IsComplete ==
    IF vetoed THEN TRUE ELSE Len(votes) >= required_approvals

\* pending_count without the floor at 0.
PendingCount_NoFloor == required_approvals - Len(votes)

\* ConsensusBuilder.pending_count
PendingCount ==
    LET needed == required_approvals - Len(votes)
    IN  IF 0 >= needed THEN 0 ELSE needed

NextConsensus == \E vote \in VoteInputs : AddVote(vote)

SpecConsensus == InitConsensus /\ [][NextConsensus]_vars

-----------------------------------------------------------------------------
(* AgentMessage *)

\* MessageType
REQUEST == "request"
RESPONSE == "response"
REVIEW == "review"
APPROVAL == "approval"

\* Priority.NORMAL
NORMAL == 2

agent_b == <<"a","g","e","n","t","_","b">>

\* Most AgentMessage objects constructed in one behaviour.
MaxMessages == 3

\* _generate_id: the first 8 characters of a random UUID, any of which may come
\* out; two of them stand for all.
GeneratedIds == {"1f0e3dad", "9b2c44a7"}

\* The senders and receivers of the messages constructed.
Correspondents == {agent_a, agent_b}

\* The truth value Python gives an optional string: None and "" are false.
Truthy(x) == x # None /\ x # ""

\* AgentMessage(...): the dataclass constructor with its defaults, and the
\* message_id its default factory generates.
AgentMessage(sender, receiver, message_type, content, confidence, correlation_id, in_reply_to, message_id) ==
    [sender |-> sender,
     receiver |-> receiver,
     message_type |-> message_type,
     content |-> content,
     confidence |-> confidence,
     priority |-> NORMAL,
     correlation_id |-> correlation_id,
     in_reply_to |-> in_reply_to,
     message_id |-> message_id]

\* create_reply with the reply correlated to the message replied to, whatever
\* correlation id that message carries.
ReplyTo_CorrelatesToParent(self, sender, content, message_type, confidence, new_id) ==
    AgentMessage(sender, self.sender, message_type, content, confidence,
                 self.message_id, self.message_id, new_id)

\* The message AgentMessage.create_reply returns.
ReplyTo(self, sender, content, message_type, confidence, new_id) ==
    AgentMessage(sender, self.sender, message_type, content, confidence,
                 IF Truthy(self.correlation_id) THEN self.correlation_id
                                                ELSE self.message_id,
                 self.message_id, new_id)

\* A caller constructs a message that starts a conversation.
NewMessage(sender, receiver, correlation_id, new_id) ==
    /\ Len(messages) < MaxMessages
    /\ messages' = Append(messages,
            AgentMessage(sender, receiver, REQUEST, "help", FullConfidence,
                         correlation_id, None, new_id))
    /\ reply_of' = Append(reply_of, 0)
    /\ UNCHANGED <<consVars, orchVars, runVars, agentVars>>

\* AgentMessage.create_reply, called on the i-th message constructed.
CreateReply(i, sender, message_type, new_id) ==
    /\ Len(messages) < MaxMessages
    /\ messages' = Append(messages,
            ReplyTo(messages[i], sender, "here's help", message_type,
                    FullConfidence, new_id))
    /\ reply_of' = Append(reply_of, i)
    /\ UNCHANGED <<consVars, orchVars, runVars, agentVars>>

InitMessages ==
    /\ NoConsensus
    /\ InitOrchestrator
    /\ NoMessages

NextMessages ==
    \/ \E sender, receiver \in Correspondents, corr \in {None, "thread-0"},
          new_id \in GeneratedIds :
            NewMessage(sender, receiver, corr, new_id)
    \/ \E i \in 1..Len(messages), sender \in Correspondents,
          message_type \in {RESPONSE, APPROVAL}, new_id \in GeneratedIds :
            CreateReply(i, sender, message_type, new_id)

SpecMessages == InitMessages /\ [][NextMessages]_vars

-----------------------------------------------------------------------------
(* Orchestrator *)

DESC_design_an_api ==
    <<"D","e","s","i","g","n"," ","a","n"," ","a","p","i"," ","f","o","r",
      " ","u","s","e","r","s">>
DESC_review_api_design ==
    <<"R","e","v","i","e","w"," ","t","h","e"," ","A","P","I"," ","D","e",
      "s","i","g","n">>
DESC_build == <<"B","u","i","l","d"," ","A","P","I">>
DESC_raw == <<"n","o"," ","p","l","a","n">>

\* Most SubTask objects in one behaviour.
MaxTasks == 3

\* Most messages queued in the agents' inboxes in one behaviour.
MaxInbox == 1

\* The number of messages queued in the inboxes of the agents in S.
RECURSIVE Queued(_)
Queued(S) ==
    IF S = {} THEN 0
    ELSE LET a == CHOOSE x \in S : TRUE
         IN  Len(inbox[a]) + Queued(S \ {a})

\* The truth value of an optional string with "unknown" counted as unset.
TruthyStr_NotSentinel(x) == x # NoneStr /\ x # <<>> /\ x # STR_unknown

\* The truth value Python gives an optional string held as characters.
TruthyStr(x) == x # NoneStr /\ x # <<>>

\* TaskRequest(task_id, task_type="development", description)
TaskRequest(task_id, description) ==
    [task_id |-> task_id,
     task_type |-> "development",
     description |-> description,
     parameters |-> <<>>,
     deadline |-> None,
     dependencies |-> <<>>]

\* Orchestrator.register_agent: a dict assignment, which keeps the place of a
\* name that is registered.
RegisterAgent(name) ==
    /\ agents' = IF Registered(name) THEN agents ELSE Append(agents, name)
    /\ ret' = NoReturn
    /\ UNCHANGED <<inbox, projects, tasks, consVars, msgVars, runVars, agentVars>>

\* Orchestrator.unregister_agent
UnregisterAgent(name) ==
    /\ agents' = IF Registered(name)
                 THEN RemoveAt(agents, CHOOSE i \in 1..Len(agents) : agents[i] = name)
                 ELSE agents
    /\ ret' = NoReturn
    /\ UNCHANGED <<inbox, projects, tasks, consVars, msgVars, runVars, agentVars>>

\* The inner loop of _select_agent: some capability, in lower case, occurs in
\* the description in lower case.
RECURSIVE AnyCapabilityIn(_, _)
AnyCapabilityIn(caps, description) ==
    IF caps = <<>> THEN FALSE
    ELSE IF Contains(Lower(Head(caps)), Lower(description)) THEN TRUE
    ELSE AnyCapabilityIn(Tail(caps), description)

\* The outer loop of _select_agent over self._agents.items(): the first name
\* with a capability that matches, NoneStr when the loop ends without a return.
RECURSIVE FirstCapable(_, _)
FirstCapable(names, description) ==
    IF names = <<>> THEN NoneStr
    ELSE IF AnyCapabilityIn(Capabilities(Head(names)), description) THEN Head(names)
    ELSE FirstCapable(Tail(names), description)

\* _select_agent returning the last registered agent when no capability matches.
SelectAgent_DefaultLast(names, description) ==
    LET found == FirstCapable(names, description)
    IN  IF found # NoneStr THEN found
        ELSE IF names # <<>> THEN names[Len(names)]
        ELSE STR_unknown

\* _select_agent comparing capability and description as written, without
\* lower().
SelectAgent_NoCaseFold(names, description) ==
    LET Match(n) == \E i \in 1..Len(Capabilities(n)) :
                        Contains(Capabilities(n)[i], description)
    IN  IF \E i \in 1..Len(names) : Match(names[i])
        THEN names[CHOOSE i \in 1..Len(names) :
                      Match(names[i]) /\ \A j \in 1..(i - 1) : ~Match(names[j])]
        ELSE IF names # <<>> THEN names[1]
        ELSE STR_unknown

\* Orchestrator._select_agent
SelectAgent(names, description) ==
    LET found == FirstCapable(names, description)
    IN  IF found # NoneStr THEN found
        ELSE IF names # <<>> THEN names[1]
        ELSE STR_unknown

\* Orchestrator.create_project: a dict assignment, which replaces the
\* ProjectState stored under an id that exists.
CreateProject(project_id, name, description) ==
    LET project == ProjectState(project_id, name, description)
    IN  /\ projects' = IF ProjectExists(project_id)
                       THEN [projects EXCEPT ![ProjectIndex(project_id)] = project]
                       ELSE Append(projects, project)
        /\ ret' = [op |-> "create_project", value |-> project]
        /\ UNCHANGED <<agents, inbox, tasks, consVars, msgVars, runVars, agentVars>>

\* The SubTasks _parse_subtasks makes of a response, ids being the task ids
\* that uuid4 generates for them, in order.
ParseSubtasks(parent_id, response, ids) ==
    IF response.kind = "json_list"
    THEN [k \in 1..Len(response.items) |->
            SubTask(ids[k], parent_id, response.items[k].description,
                    response.items[k].agent, response.items[k].dependencies)]
    ELSE <<SubTask(ids[1], parent_id, response.content, NoneStr, <<>>)>>

\* _parse_subtasks raises: the response is a JSON array with an element that
\* is no object, and `item.get` raises AttributeError, which the
\* `except json.JSONDecodeError` does not catch.
ParseRaises(response) ==
    /\ response.kind = "json_list"
    /\ \E k \in 1..Len(response.items) : "scalar" \in DOMAIN response.items[k]

\* The number of SubTasks _parse_subtasks makes of a response.
SubtaskCount(response) ==
    IF response.kind = "json_list" THEN Len(response.items) ELSE 1

\* The loop of decompose_task that stores the subtasks, the k-th being the
\* object base + k, under their task ids.
RECURSIVE StoreSubtasks(_, _, _, _)
StoreSubtasks(stored, subtasks, base, k) ==
    IF k > Len(subtasks) THEN stored
    ELSE StoreSubtasks((subtasks[k].task_id :> (base + k)) @@ stored,
                       subtasks, base, k + 1)

\* Orchestrator.decompose_task, response being the content of the completion.
\* ret records the response and the project of the call; an exception that
\* leaves the call is recorded in the place of the list returned.
DecomposeTask(task_id, description, project_id, response, ids) ==
    IF ParseRaises(response)
    THEN /\ ret' = [op |-> "raise", value |-> "AttributeError",
                    response |-> response, project_id |-> project_id]
         /\ UNCHANGED <<agents, inbox, projects, tasks, consVars, msgVars, runVars, agentVars>>
    ELSE LET subtasks == ParseSubtasks(task_id, response, ids)
             base == Len(tasks)
         IN  /\ base + Len(subtasks) <= MaxTasks
             /\ tasks' = tasks \o subtasks
             /\ projects' =
                  IF ProjectExists(project_id)
                  THEN [projects EXCEPT ![ProjectIndex(project_id)].tasks =
                             StoreSubtasks(@, subtasks, base, 1)]
                  ELSE projects
             /\ ret' = [op |-> "decompose_task",
                        value |-> [k \in 1..Len(subtasks) |-> base + k],
                        response |-> response, project_id |-> project_id]
             /\ UNCHANGED <<agents, inbox, consVars, msgVars, runVars, agentVars>>

\* A caller constructs a SubTask.
NewSubTask(task_id, description, assigned_agent, dependencies) ==
    /\ Len(tasks) < MaxTasks
    /\ tasks' = Append(tasks,
                       SubTask(task_id, None, description, assigned_agent, dependencies))
    /\ ret' = NoReturn
    /\ UNCHANGED <<agents, inbox, projects, consVars, msgVars, runVars, agentVars>>

\* assign_task setting the status before it looks the agent up.
AssignTask_StatusFirst(t, new_id) ==
    LET subtask == tasks[t]
        chosen == IF TruthyStr(subtask.assigned_agent)
                  THEN subtask.assigned_agent
                  ELSE SelectAgent(agents, subtask.description)
        message == AgentMessage(STR_orchestrator, chosen, REQUEST,
                                TaskRequest(subtask.task_id, subtask.description),
                                FullConfidence, None, None, new_id)
    IN  /\ tasks' = [tasks EXCEPT ![t].assigned_agent = chosen,
                                  ![t].status = ASSIGNED]
        /\ IF ~Registered(chosen)
           THEN /\ ret' = [op |-> "assign_task", value |-> FALSE]
                /\ UNCHANGED inbox
           ELSE /\ Queued(DOMAIN inbox) < MaxInbox
                /\ inbox' = [inbox EXCEPT ![chosen] = Append(@, message)]
                /\ ret' = [op |-> "assign_task", value |-> TRUE]
        /\ UNCHANGED <<agents, projects, consVars, msgVars, runVars, agentVars>>

\* Orchestrator.assign_task on the SubTask object t; new_id is the message_id
\* generated for the request.
AssignTask(t, new_id) ==
    LET subtask == tasks[t]
        chosen == IF TruthyStr(subtask.assigned_agent)
                  THEN subtask.assigned_agent
                  ELSE SelectAgent(agents, subtask.description)
        message == AgentMessage(STR_orchestrator, chosen, REQUEST,
                                TaskRequest(subtask.task_id, subtask.description),
                                FullConfidence, None, None, new_id)
    IN  /\ IF ~Registered(chosen)
           THEN /\ tasks' = [tasks EXCEPT ![t].assigned_agent = chosen]
                /\ ret' = [op |-> "assign_task", value |-> FALSE]
                /\ UNCHANGED inbox
           ELSE /\ Queued(DOMAIN inbox) < MaxInbox
                /\ inbox' = [inbox EXCEPT ![chosen] = Append(@, message)]
                /\ tasks' = [tasks EXCEPT ![t].assigned_agent = chosen,
                                          ![t].status = ASSIGNED]
                /\ ret' = [op |-> "assign_task", value |-> TRUE]
        /\ UNCHANGED <<agents, projects, consVars, msgVars, runVars, agentVars>>

\* A caller marks a SubTask completed.
CompleteTask(t) ==
    /\ tasks[t].status # COMPLETED
    /\ tasks' = [tasks EXCEPT ![t].status = COMPLETED]
    /\ ret' = NoReturn
    /\ UNCHANGED <<agents, inbox, projects, consVars, msgVars, runVars, agentVars>>

\* The inner loop of _dependencies_met for one dependency id: FALSE as soon as
\* a project holds a task of that id that is not completed.
RECURSIVE CompletedWhereFound(_, _)
CompletedWhereFound(ps, dep_id) ==
    IF ps = <<>> THEN TRUE
    ELSE IF /\ dep_id \in DOMAIN Head(ps).tasks
            /\ tasks[Head(ps).tasks[dep_id]].status # COMPLETED
         THEN FALSE
         ELSE CompletedWhereFound(Tail(ps), dep_id)

\* The outer loop of _dependencies_met over task.dependencies.
RECURSIVE DependenciesMetFrom(_)
DependenciesMetFrom(deps) ==
    IF deps = <<>> THEN TRUE
    ELSE IF ~CompletedWhereFound(projects, Head(deps)) THEN FALSE
    ELSE DependenciesMetFrom(Tail(deps))

\* _dependencies_met with a dependency found in no project counted as unmet.
DependenciesMet_MissingUnmet(task) ==
    \A k \in 1..Len(task.dependencies) :
        /\ \E i \in 1..Len(projects) : task.dependencies[k] \in DOMAIN projects[i].tasks
        /\ CompletedWhereFound(projects, task.dependencies[k])

\* _dependencies_met looking only in the first project that holds the id.
DependenciesMet_FirstProject(task) ==
    \A k \in 1..Len(task.dependencies) :
        LET holders == {i \in 1..Len(projects) :
                            task.dependencies[k] \in DOMAIN projects[i].tasks}
        IN  holders # {} =>
              LET first == CHOOSE i \in holders : \A j \in holders : i <= j
              IN  tasks[projects[first].tasks[task.dependencies[k]]].status = COMPLETED

\* Orchestrator._dependencies_met
DependenciesMet(task) == DependenciesMetFrom(task.dependencies)

\* Orchestrator._dependencies_met called on the SubTask object t.
CheckDependencies(t) ==
    /\ ret' = [op |-> "_dependencies_met", value |-> DependenciesMet(tasks[t]),
               task |-> t]
    /\ UNCHANGED <<agents, inbox, projects, tasks, consVars, msgVars, runVars, agentVars>>

-----------------------------------------------------------------------------
(* Agent selection: agents come and go, callers construct SubTasks and have
   them assigned. *)

SelectDescriptions == {DESC_design_an_api, DESC_review_api_design}

\* Most SubTasks that callers construct for assignment.
MaxAssignable == 2

InitSelect ==
    /\ NoConsensus
    /\ NoMessages
    /\ InitOrchestrator

NextSelect ==
    \/ \E name \in AgentPool : RegisterAgent(name)
    \/ \E name \in AgentPool : UnregisterAgent(name)
    \/ \E description \in SelectDescriptions :
          /\ Len(tasks) < MaxAssignable
          /\ NewSubTask("t1", description, NoneStr, <<>>)
    \/ \E t \in 1..Len(tasks) : AssignTask(t, "1f0e3dad")

SpecSelect == InitSelect /\ [][NextSelect]_vars

-----------------------------------------------------------------------------
(* Projects: a project is created, goals are decomposed into it, SubTasks
   are assigned and completed. *)

ProjectIds == {"P1", "P2"}
TaskIds == {"t1", "t2"}

\* A subtask object of a completion's JSON array.
Item(description, agent, dependencies) ==
    [description |-> description, agent |-> agent, dependencies |-> dependencies]

\* The completions decompose_task gets: text that is no JSON, and arrays of
\* subtask objects.
Responses ==
    { [kind |-> "text", content |-> DESC_raw],
      [kind |-> "json_list", items |-> <<>>],
      [kind |-> "json_list", items |-> <<Item(DESC_build, NoneStr, <<>>)>>],
      [kind |-> "json_list",
       items |-> <<Item(DESC_build, NoneStr, <<>>), Item(DESC_build, NoneStr, <<"t1">>)>>] }

\* A value of a completion's JSON array that is no object: a string.
Scalar(text) == [scalar |-> text]

\* The completions that are JSON but no array of objects: an object, of which
\* content is the text, and an array of strings.
OtherResponses ==
    { [kind |-> "json_object", content |-> DESC_raw],
      [kind |-> "json_list", items |-> <<Scalar(DESC_build)>>] }

\* The completions that are plans: arrays of one subtask, and of two where
\* the second names "t1" as its dependency.
Plans == {response \in Responses :
            response.kind = "json_list" /\ Len(response.items) > 0}

\* decompose_task of a goal into a project, with any plan and any task ids.
Decompose(project_id) ==
    \E response \in Plans, ids \in [1..2 -> TaskIds] :
        /\ \A k \in 1..2 : k > SubtaskCount(response) => ids[k] = "t1"
        /\ DecomposeTask("main", "goal", project_id, response, ids)

\* An orchestrator with the backend agent registered.
InitProjects ==
    /\ NoConsensus
    /\ NoMessages
    /\ agents = <<backend>>
    /\ inbox = [a \in AgentPool |-> <<>>]
    /\ NewAgents(AgentPool)
    /\ projects = <<>>
    /\ tasks = <<>>
    /\ ret = NoReturn
    /\ NoRun

NextProjects ==
    \/ CreateProject("P1", "Project", "goal")
    \/ Decompose("P1")
    \/ \E t \in 1..Len(tasks) : AssignTask(t, "1f0e3dad")
    \/ \E t \in 1..Len(tasks) : CompleteTask(t)

SpecProjects == InitProjects /\ [][NextProjects]_vars

-----------------------------------------------------------------------------
(* Decomposition: a project is created and goals are decomposed into it and
   into a project that does not exist, with every completion. *)

\* The task ids uuid4 gives the SubTasks: any, of which some are the names
\* that completions use for subtasks.
GeneratedTaskIds == TaskIds \cup {"1f0e3dad"}

\* decompose_task of a goal, with any completion and task ids that differ.
DecomposeAny(project_id) ==
    \E response \in Responses \cup OtherResponses, ids \in [1..2 -> GeneratedTaskIds] :
        /\ ids[1] # ids[2]
        /\ DecomposeTask("main", "goal", project_id, response, ids)

InitDecompose ==
    /\ NoConsensus
    /\ NoMessages
    /\ InitOrchestrator

NextDecompose ==
    \/ CreateProject("P1", "Project", "goal")
    \/ \E project_id \in ProjectIds : DecomposeAny(project_id)

SpecDecompose == InitDecompose /\ [][NextDecompose]_vars

-----------------------------------------------------------------------------
(* Dependencies: goals are decomposed into several projects, SubTasks are
   completed and their dependencies checked. *)

InitDeps ==
    /\ NoConsensus
    /\ NoMessages
    /\ InitOrchestrator

NextDeps ==
    \/ \E project_id \in ProjectIds : CreateProject(project_id, "Project", "goal")
    \/ \E project_id \in ProjectIds : Decompose(project_id)
    \/ \E t \in 1..Len(tasks) : CompleteTask(t)
    \/ \E t \in 1..Len(tasks) : CheckDependencies(t)

SpecDeps == InitDeps /\ [][NextDeps]_vars

-----------------------------------------------------------------------------
(* Routing: agents come and go, and messages are routed to them. *)

STR_broadcast == <<"b","r","o","a","d","c","a","s","t">>

\* Most messages queued: in the inbox of one agent where messages are routed,
\* in all inboxes together where reviews are coordinated.
MaxQueue == 2

\* The inboxes after _route_message(message): receive_message on every
\* registered agent for a broadcast, on the receiver if it is registered, on
\* no agent otherwise.
Routed(message) ==
    IF message.receiver = STR_broadcast
    THEN [a \in DOMAIN inbox |->
            IF Registered(a) THEN Append(inbox[a], message) ELSE inbox[a]]
    ELSE IF Registered(message.receiver)
    THEN [inbox EXCEPT ![message.receiver] = Append(@, message)]
    ELSE inbox

\* _route_message without the broadcast branch.
RouteMessage_NoBroadcast(message) ==
    /\ \A a \in DOMAIN inbox : Len(inbox[a]) < MaxQueue
    /\ inbox' = IF Registered(message.receiver)
                THEN [inbox EXCEPT ![message.receiver] = Append(@, message)]
                ELSE inbox
    /\ ret' = [op |-> "_route_message", value |-> None, message |-> message]
    /\ UNCHANGED <<agents, projects, tasks, consVars, msgVars, runVars, agentVars>>

\* Orchestrator._route_message
RouteMessage(message) ==
    /\ \A a \in DOMAIN inbox : Len(inbox[a]) < MaxQueue
    /\ inbox' = Routed(message)
    /\ ret' = [op |-> "_route_message", value |-> None, message |-> message]
    /\ UNCHANGED <<agents, projects, tasks, consVars, msgVars, runVars, agentVars>>

\* The messages handed to the orchestrator: to each agent of the pool, to all,
\* and to a name no agent has.
RoutedMessages ==
    {AgentMessage(agent_a, receiver, message_type, "help", FullConfidence, None, None, "1f0e3dad") :
        receiver \in AgentPool \cup {STR_broadcast, agent_b},
        message_type \in {REQUEST}}

InitRoute ==
    /\ NoConsensus
    /\ NoMessages
    /\ InitOrchestrator

NextRoute ==
    \/ \E name \in AgentPool : RegisterAgent(name)
    \/ \E name \in AgentPool : UnregisterAgent(name)
    \/ \E message \in RoutedMessages : RouteMessage(message)

SpecRoute == InitRoute /\ [][NextRoute]_vars

-----------------------------------------------------------------------------
(* Reviews: agents come and go, and reviews of changes are coordinated. *)

ROLE_research ==
    <<"R","e","s","e","a","r","c","h"," ","a","n","d"," ","I","n","f","o",
      "r","m","a","t","i","o","n"," ","S","p","e","c","i","a","l","i","s","t">>
ROLE_backend ==
    <<"B","a","c","k","e","n","d"," ","D","e","v","e","l","o","p","m","e",
      "n","t"," ","a","n","d"," ","A","P","I"," ","S","p","e","c","i","a",
      "l","i","s","t">>
ROLE_security ==
    <<"S","e","c","u","r","i","t","y"," ","A","n","a","l","y","s","i","s",
      " ","a","n","d"," ","E","n","f","o","r","c","e","m","e","n","t"," ",
      "S","p","e","c","i","a","l","i","s","t">>
ROLE_security_lead ==
    <<"L","e","a","d"," ","o","f"," ","s","e","c","u","r","i","t","y">>

\* The agent objects that take part in reviews: the pool and a second agent
\* with a security role.
ReviewPool == AgentPool \cup {Security_Lead}

\* BaseAgent.role of each agent object.
Role(name) ==
    CASE name = research -> ROLE_research
      [] name = backend -> ROLE_backend
      [] name = security_agent -> ROLE_security
      [] name = Security_Lead -> ROLE_security_lead

\* The default of count in _select_reviewers.
ReviewerCount == 2

\* required_approvals of the builder coordinate_review makes.
ReviewApprovals == 2

\* The first loop of _select_reviewers: the first agent other than the author
\* whose role, in lower case, contains "security", as a list.
RECURSIVE SecurityReviewer(_, _)
SecurityReviewer(names, author) ==
    IF names = <<>> THEN <<>>
    ELSE IF Head(names) # author /\ Contains(STR_security, Lower(Role(Head(names))))
    THEN <<Head(names)>>
    ELSE SecurityReviewer(Tail(names), author)

\* The second loop of _select_reviewers: the agents other than the author and
\* the reviewers are appended until the reviewers are count.
RECURSIVE OtherReviewers(_, _, _, _)
OtherReviewers(names, author, reviewers, count) ==
    IF names = <<>> THEN reviewers
    ELSE IF Head(names) # author /\ \A i \in 1..Len(reviewers) : reviewers[i] # Head(names)
    THEN IF Len(reviewers) + 1 >= count
         THEN Append(reviewers, Head(names))
         ELSE OtherReviewers(Tail(names), author, Append(reviewers, Head(names)), count)
    ELSE OtherReviewers(Tail(names), author, reviewers, count)

\* _select_reviewers without the search for a security agent.
SelectReviewers_NoSecurityFirst(names, author) ==
    OtherReviewers(names, author, <<>>, ReviewerCount)

\* Orchestrator._select_reviewers
SelectReviewers(names, author) ==
    OtherReviewers(names, author, SecurityReviewer(names, author), ReviewerCount)

\* ReviewRequest(...) as coordinate_review constructs it.
ReviewRequest(change_id, description, author, reviewers_needed) ==
    [change_id |-> change_id,
     change_type |-> "code",
     description |-> description,
     diff |-> "",
     files_changed |-> <<>>,
     author |-> author,
     reviewers_needed |-> reviewers_needed]

\* The loop of coordinate_review without the test that the reviewer is
\* registered.
RECURSIVE ReviewsSent_Unchecked(_, _, _, _)
ReviewsSent_Unchecked(boxes, reviewers, review_request, new_id) ==
    IF reviewers = <<>> THEN boxes
    ELSE LET reviewer_name == Head(reviewers)
             message == AgentMessage(STR_orchestrator, reviewer_name, REVIEW, review_request, FullConfidence, None, None, new_id)
         IN  ReviewsSent_Unchecked([boxes EXCEPT ![reviewer_name] = Append(@, message)],
                                   Tail(reviewers), review_request, new_id)

\* The loop of coordinate_review that sends the requests: the inboxes after
\* receive_message on every reviewer of the list that is registered.
RECURSIVE ReviewsSent(_, _, _, _)
ReviewsSent(boxes, reviewers, review_request, new_id) ==
    IF reviewers = <<>> THEN boxes
    ELSE LET reviewer_name == Head(reviewers)
             message == AgentMessage(STR_orchestrator, reviewer_name, REVIEW, review_request, FullConfidence, None, None, new_id)
         IN  ReviewsSent(IF Registered(reviewer_name)
                         THEN [boxes EXCEPT ![reviewer_name] = Append(@, message)]
                         ELSE boxes,
                         Tail(reviewers), review_request, new_id)

\* Orchestrator.coordinate_review; reviewers = <<>> stands for a call without
\* reviewers (None or []).  The ConsensusBuilder returned is the builder of
\* the state.
CoordinateReview(change_id, change, author, reviewers, new_id) ==
    LET chosen == IF reviewers = <<>> THEN SelectReviewers(agents, author)
                  ELSE reviewers
        review_request == ReviewRequest(change_id, change, author, Len(chosen))
    IN  /\ Queued(DOMAIN inbox) + Len(chosen) <= MaxQueue
        /\ inbox' = ReviewsSent(inbox, chosen, review_request, new_id)
        /\ decision_id' = change_id
        /\ required_approvals' = ReviewApprovals
        /\ allow_veto' = TRUE
        /\ votes' = <<>>
        /\ vetoed' = FALSE
        /\ veto_reason' = NoneStr
        /\ vote_log' = <<>>
        /\ ret' = [op |-> "coordinate_review", value |-> change_id,
                   author |-> author, reviewers |-> reviewers]
        /\ UNCHANGED <<agents, projects, tasks, msgVars, runVars, agentVars>>

\* The authors of changes: an agent of the pool and one that is none.
Authors == {security_agent, agent_a}

\* The reviewer lists callers pass: none, one of two agents, one with a name
\* twice.
ReviewerLists == {<<>>, <<research, backend>>, <<research, research>>}

\* The vote a reviewer casts on the builder coordinate_review returned.
ReviewVote ==
    [voter |-> security_agent, vote_type |-> REJECT, confidence |-> FullConfidence,
     reasoning |-> ReasoningOf(REJECT), concerns |-> ConcernsOf(security_agent)]

InitReview ==
    /\ NoConsensus
    /\ NoMessages
    /\ agents = <<>>
    /\ inbox = [a \in ReviewPool |-> <<>>]
    /\ NewAgents(ReviewPool)
    /\ projects = <<>>
    /\ tasks = <<>>
    /\ ret = NoReturn
    /\ NoRun

NextReview ==
    \/ \E name \in ReviewPool : RegisterAgent(name)
    \/ \E name \in ReviewPool : UnregisterAgent(name)
    \/ \E author \in Authors, reviewers \in ReviewerLists :
          CoordinateReview("change-1", "diff", author, reviewers, "1f0e3dad")
    \/ decision_id # None /\ AddVote(ReviewVote)

SpecReview == InitReview /\ [][NextReview]_vars

-----------------------------------------------------------------------------
(* Conflicts: agents come and go, and conflicts between agents are handled. *)

\* 0.6, the confidence above which handle_conflict votes Approve, in
\* twentieths.
CompromiseConfidence == 12

\* The Thought objects agent.think returns: the text of the model's answer
\* and the confidence _extract_confidence reads from it.
Thoughts ==
    {[content |-> <<"Keep my position. Confidence: 0.6">>, confidence |-> CompromiseConfidence],
     [content |-> <<"A compromise may work. Confidence: 0.75">>, confidence |-> 15],
     [content |-> <<"Agreed. Confidence: 1.0">>, confidence |-> FullConfidence]}

\* Vote(voter, vote_type, confidence, reasoning) as handle_conflict constructs
\* it from a thought, with Reject for every thought.
ConflictVote_AlwaysReject(agent_name, thought) ==
    [voter |-> agent_name,
     vote_type |-> REJECT,
     confidence |-> thought.confidence,
     reasoning |-> thought.content,
     concerns |-> <<>>]

\* Vote(voter, vote_type, confidence, reasoning) as handle_conflict constructs
\* it from a thought; concerns has its default, the empty list.
ConflictVote(agent_name, thought) ==
    [voter |-> agent_name,
     vote_type |-> IF thought.confidence > CompromiseConfidence THEN APPROVE ELSE REJECT,
     confidence |-> thought.confidence,
     reasoning |-> thought.content,
     concerns |-> <<>>]

\* The loop of handle_conflict over the agents: the agents asked to think, in
\* the order asked.  names is the registry.
RECURSIVE ConflictThinkers(_, _)
ConflictThinkers(conflict_agents, names) ==
    IF conflict_agents = <<>> THEN <<>>
    ELSE (IF \E i \in 1..Len(names) : names[i] = Head(conflict_agents)
          THEN <<Head(conflict_agents)>> ELSE <<>>)
         \o ConflictThinkers(Tail(conflict_agents), names)

\* The add_vote calls of handle_conflict: the votes of the builder after the
\* thinkers voted, each from its thought; add_vote drops the vote of a voter
\* that has voted.
RECURSIVE ConflictVotes(_, _, _)
ConflictVotes(thinkers, thoughts, vs) ==
    IF thinkers = <<>> THEN vs
    ELSE LET vote == ConflictVote(Head(thinkers), Head(thoughts))
         IN  ConflictVotes(Tail(thinkers), Tail(thoughts),
                           IF \E i \in 1..Len(vs) : vs[i].voter = vote.voter
                           THEN vs ELSE Append(vs, vote))

\* The places of the votes with which add_vote sets the veto, in a builder
\* that allows the veto.
VetoPlaces(vs) ==
    {i \in 1..Len(vs) :
        /\ vs[i].vote_type = REJECT
        /\ Contains(STR_security, Lower(vs[i].voter))
        /\ Len(vs[i].concerns) > 0}

\* decision_id=f"conflict_{topic}"
ConflictId(topic) ==
    CASE topic = "api style" -> "conflict_api style"
      [] topic = "storage" -> "conflict_storage"

\* Orchestrator.handle_conflict.  thoughts are the thoughts the agents asked
\* return, in the order asked.  The builder of the call is the builder of the
\* state; ret records the agents asked and the decision returned.
HandleConflict(conflict_agents, topic, thoughts) ==
    LET thinkers == ConflictThinkers(conflict_agents, agents)
        new_votes == ConflictVotes(thinkers, thoughts, <<>>)
        last_veto == CHOOSE i \in VetoPlaces(new_votes) :
                        \A j \in VetoPlaces(new_votes) : j <= i
    IN  /\ Len(thoughts) = Len(thinkers)
        /\ decision_id' = ConflictId(topic)
        /\ required_approvals' = Len(conflict_agents)
        /\ allow_veto' = TRUE
        /\ votes' = new_votes
        /\ vetoed' = (VetoPlaces(new_votes) # {})
        /\ veto_reason' = IF VetoPlaces(new_votes) # {}
                          THEN VetoReason(new_votes[last_veto]) ELSE NoneStr
        /\ vote_log' = IF thinkers = <<>> THEN <<>>
                       ELSE IF Len(new_votes) < Len(thinkers)
                               /\ \E i \in 1..(Len(thinkers) - 1) :
                                     thinkers[i] = thinkers[Len(thinkers)]
                       THEN <<"duplicate_vote">>
                       ELSE <<"vote_recorded">>
        /\ ret' = [op |-> "handle_conflict", value |-> GetResult'.final_decision,
                   agents |-> conflict_agents, thinkers |-> thinkers,
                   thoughts |-> thoughts]
        /\ state' = [a \in DOMAIN state |->
                        IF \E i \in 1..Len(thinkers) : thinkers[i] = a
                        THEN IDLE ELSE state[a]]
        /\ UNCHANGED <<agents, inbox, projects, tasks, msgVars, runVars, thinking>>

\* The agents in conflict that callers pass: two agents, two agents of which
\* one has a security role, one agent named twice.
ConflictLists ==
    {<<research, backend>>, <<security_agent, research>>, <<research, research>>}

\* The thoughts of up to two agents asked.
ThoughtLists == UNION {[1..n -> Thoughts] : n \in 0..2}

InitConflict ==
    /\ NoConsensus
    /\ NoMessages
    /\ InitOrchestrator

NextConflict ==
    \/ \E name \in AgentPool : RegisterAgent(name)
    \/ \E name \in AgentPool : UnregisterAgent(name)
    \/ \E conflict_agents \in ConflictLists, thoughts \in ThoughtLists :
          HandleConflict(conflict_agents, "api style", thoughts)

SpecConflict == InitConflict /\ [][NextConflict]_vars

-----------------------------------------------------------------------------
(* The orchestration loop: run() takes tasks and messages from the queues
   while callers queue them, complete tasks and stop the orchestrator. *)

\* The SubTask objects of the project: t2 depends on t1 and names an agent
\* that is not registered, and t3 is made by _parse_subtasks of a plan with
\* "dependencies": null.
RunTasks ==
    <<SubTask("t1", "main", DESC_build, NoneStr, <<>>),
      SubTask("t2", "main", DESC_build, research, <<"t1">>),
      SubTask("t3", "main", DESC_build, NoneStr, NoneStr)>>

\* The objects callers put on the message queue: an object that is no
\* AgentMessage and has no receiver, and a broadcast.
RunMessages ==
    <<[content |-> "help"],
      AgentMessage(agent_a, STR_broadcast, REQUEST, "help", FullConfidence, None, None, "9b2c44a7")>>

\* An orchestrator with the backend agent registered and a project decomposed
\* into the three SubTasks; run() has not been called.
InitRun ==
    /\ NoConsensus
    /\ NoMessages
    /\ agents = <<backend>>
    /\ inbox = [a \in AgentPool |-> <<>>]
    /\ NewAgents(AgentPool)
    /\ projects = <<[ProjectState("P1", "Project", "goal") EXCEPT
                        !.tasks = ("t1" :> 1) @@ ("t2" :> 2) @@ ("t3" :> 3)]>>
    /\ tasks = RunTasks
    /\ ret = NoReturn
    /\ running = FALSE
    /\ pc = "idle"
    /\ task_queue = <<>>
    /\ message_queue = <<>>
    /\ caught = 0
    /\ task_outcome = [t \in 1..Len(RunTasks) |-> NotQueued]
    /\ message_outcome = [k \in 1..Len(RunMessages) |-> NotQueued]

\* run() up to the loop.
RunStart ==
    /\ pc = "idle"
    /\ running' = TRUE
    /\ pc' = "task"
    /\ UNCHANGED <<task_queue, message_queue, caught, task_outcome, message_outcome>>
    /\ UNCHANGED <<consVars, msgVars, orchVars, agentVars>>

\* Orchestrator.stop
Stop ==
    /\ running' = FALSE
    /\ UNCHANGED <<pc, task_queue, message_queue, caught, task_outcome, message_outcome>>
    /\ UNCHANGED <<consVars, msgVars, orchVars, agentVars>>

\* A caller puts the SubTask object t on the task queue.
SubmitTask(t) ==
    /\ task_outcome[t].result = "none"
    /\ task_queue' = Append(task_queue, t)
    /\ task_outcome' = [task_outcome EXCEPT ![t] = [at |-> caught, result |-> "queued"]]
    /\ UNCHANGED <<running, pc, message_queue, caught, message_outcome>>
    /\ UNCHANGED <<consVars, msgVars, orchVars, agentVars>>

\* A caller puts the k-th message on the message queue.
SubmitMessage(k) ==
    /\ message_outcome[k].result = "none"
    /\ message_queue' = Append(message_queue, k)
    /\ message_outcome' = [message_outcome EXCEPT ![k] = [at |-> caught, result |-> "queued"]]
    /\ UNCHANGED <<running, pc, task_queue, caught, task_outcome>>
    /\ UNCHANGED <<consVars, msgVars, orchVars, agentVars>>

\* `while True` in the place of `while self._running`.
LoopAgain_IgnoresStop == pc' = "task"

\* `while self._running` at the end of an iteration: the next get of the task
\* queue, or the return of run().
LoopAgain == pc' = IF running THEN "task" ELSE "done"

\* run() without the outer try: the exception leaves run().
ExceptionCaught_Propagates ==
    /\ pc' = "done"
    /\ caught' = caught

\* `except Exception as e` of run(): the error is logged and the loop goes on.
ExceptionCaught ==
    /\ LoopAgain
    /\ caught' = caught + 1

\* _process_task without the put that re-queues a blocked task.
RunTask_DropsBlocked ==
    /\ pc = "task"
    /\ task_queue # <<>>
    /\ LET t == Head(task_queue)
           subtask == tasks[t]
           chosen == IF TruthyStr(subtask.assigned_agent)
                     THEN subtask.assigned_agent
                     ELSE SelectAgent(agents, subtask.description)
           message == AgentMessage(STR_orchestrator, chosen, REQUEST,
                                   TaskRequest(subtask.task_id, subtask.description),
                                   FullConfidence, None, None, "1f0e3dad")
       IN  IF subtask.dependencies = NoneStr
           THEN /\ ExceptionCaught
                /\ task_queue' = Tail(task_queue)
                /\ task_outcome' = [task_outcome EXCEPT ![t].result = "raised"]
                /\ UNCHANGED <<tasks, inbox>>
           ELSE IF ~DependenciesMet(subtask)
           THEN /\ tasks' = [tasks EXCEPT ![t].status = BLOCKED]
                /\ task_queue' = Tail(task_queue)
                /\ task_outcome' = [task_outcome EXCEPT ![t].result = "blocked"]
                /\ pc' = "message"
                /\ UNCHANGED <<inbox, caught>>
           ELSE IF ~Registered(chosen)
           THEN /\ tasks' = [tasks EXCEPT ![t].assigned_agent = chosen]
                /\ task_queue' = Tail(task_queue)
                /\ task_outcome' = [task_outcome EXCEPT ![t].result = "refused"]
                /\ pc' = "message"
                /\ UNCHANGED <<inbox, caught>>
           ELSE /\ inbox' = [inbox EXCEPT ![chosen] = Append(@, message)]
                /\ tasks' = [tasks EXCEPT ![t].assigned_agent = chosen,
                                          ![t].status = IN_PROGRESS]
                /\ task_queue' = Tail(task_queue)
                /\ task_outcome' = [task_outcome EXCEPT ![t].result = "in_progress"]
                /\ pc' = "message"
                /\ UNCHANGED caught
    /\ UNCHANGED <<running, message_queue, message_outcome>>
    /\ UNCHANGED <<agents, projects, ret, consVars, msgVars, agentVars>>

\* The first half of an iteration of run() with a task on the queue: the get
\* and _process_task(task), assign_task included.  Iterating over the
\* dependencies of a task that has None for them raises TypeError.
RunTask ==
    /\ pc = "task"
    /\ task_queue # <<>>
    /\ LET t == Head(task_queue)
           subtask == tasks[t]
           chosen == IF TruthyStr(subtask.assigned_agent)
                     THEN subtask.assigned_agent
                     ELSE SelectAgent(agents, subtask.description)
           message == AgentMessage(STR_orchestrator, chosen, REQUEST,
                                   TaskRequest(subtask.task_id, subtask.description),
                                   FullConfidence, None, None, "1f0e3dad")
       IN  IF subtask.dependencies = NoneStr
           THEN /\ ExceptionCaught
                /\ task_queue' = Tail(task_queue)
                /\ task_outcome' = [task_outcome EXCEPT ![t].result = "raised"]
                /\ UNCHANGED <<tasks, inbox>>
           ELSE IF ~DependenciesMet(subtask)
           THEN /\ tasks' = [tasks EXCEPT ![t].status = BLOCKED]
                /\ task_queue' = Append(Tail(task_queue), t)
                /\ task_outcome' = [task_outcome EXCEPT ![t].result = "blocked"]
                /\ pc' = "message"
                /\ UNCHANGED <<inbox, caught>>
           ELSE IF ~Registered(chosen)
           THEN /\ tasks' = [tasks EXCEPT ![t].assigned_agent = chosen]
                /\ task_queue' = Tail(task_queue)
                /\ task_outcome' = [task_outcome EXCEPT ![t].result = "refused"]
                /\ pc' = "message"
                /\ UNCHANGED <<inbox, caught>>
           ELSE /\ inbox' = [inbox EXCEPT ![chosen] = Append(@, message)]
                /\ tasks' = [tasks EXCEPT ![t].assigned_agent = chosen,
                                          ![t].status = IN_PROGRESS]
                /\ task_queue' = Tail(task_queue)
                /\ task_outcome' = [task_outcome EXCEPT ![t].result = "in_progress"]
                /\ pc' = "message"
                /\ UNCHANGED caught
    /\ UNCHANGED <<running, message_queue, message_outcome>>
    /\ UNCHANGED <<agents, projects, ret, consVars, msgVars, agentVars>>

\* The get of the task queue times out: asyncio.TimeoutError is passed over.
RunTaskTimeout ==
    /\ pc = "task"
    /\ task_queue = <<>>
    /\ pc' = "message"
    /\ UNCHANGED <<running, task_queue, message_queue, caught, task_outcome, message_outcome>>
    /\ UNCHANGED <<consVars, msgVars, orchVars, agentVars>>

\* The second half of an iteration of run() with a message on the queue: the
\* get and _route_message(message).  Reading the receiver of an object that is
\* no AgentMessage raises AttributeError.
RunMessage ==
    /\ pc = "message"
    /\ message_queue # <<>>
    /\ LET k == Head(message_queue)
           message == RunMessages[k]
       IN  IF "receiver" \notin DOMAIN message
           THEN /\ ExceptionCaught
                /\ message_outcome' = [message_outcome EXCEPT ![k].result = "raised"]
                /\ UNCHANGED inbox
           ELSE /\ inbox' = Routed(message)
                /\ message_outcome' = [message_outcome EXCEPT ![k].result = "routed"]
                /\ LoopAgain
                /\ UNCHANGED caught
    /\ message_queue' = Tail(message_queue)
    /\ UNCHANGED <<running, task_queue, task_outcome>>
    /\ UNCHANGED <<agents, projects, tasks, ret, consVars, msgVars, agentVars>>

\* The get of the message queue times out, which ends the iteration.
RunMessageTimeout ==
    /\ pc = "message"
    /\ message_queue = <<>>
    /\ LoopAgain
    /\ UNCHANGED <<running, task_queue, message_queue, caught, task_outcome, message_outcome>>
    /\ UNCHANGED <<consVars, msgVars, orchVars, agentVars>>

\* A step of run() after its start.
RunStep ==
    \/ RunTask
    \/ RunTaskTimeout
    \/ RunMessage
    \/ RunMessageTimeout

NextRun ==
    \/ RunStart
    \/ RunStep
    \/ Stop
    \/ \E t \in 1..Len(RunTasks) : SubmitTask(t)
    \/ \E k \in 1..Len(RunMessages) : SubmitMessage(k)
    \/ \E t \in 1..Len(RunTasks) : tasks[t].status = IN_PROGRESS /\ CompleteTask(t)

\* The event loop resumes run() whenever a get of a queue has returned or
\* timed out.
SpecRun == InitRun /\ [][NextRun]_vars /\ WF_vars(RunStep)

-----------------------------------------------------------------------------
(* Agents: the think call of an agent and the confidence it reads from the
   answer of the text-generation service. *)

STR_confidence == <<"c","o","n","f","i","d","e","n","c","e">>
STR_escalate == <<"e","s","c","a","l","a","t","e">>

\* \d of a regular expression.
IsDigit(c) == c \in {"0", "1", "2", "3", "4", "5", "6", "7", "8", "9"}

\* The value of a digit.
DigitValue(c) ==
    CASE c = "0" -> 0 [] c = "1" -> 1 [] c = "2" -> 2 [] c = "3" -> 3
      [] c = "4" -> 4 [] c = "5" -> 5 [] c = "6" -> 6 [] c = "7" -> 7
      [] c = "8" -> 8 [] c = "9" -> 9

\* \s of a regular expression.
IsSpace(c) == c \in {" ", "\t", "\n", "\r"}

\* The place after the digits of s that start at i (\d*, greedy).
RECURSIVE DigitsEnd(_, _)
DigitsEnd(s, i) ==
    IF i <= Len(s) /\ IsDigit(s[i]) THEN DigitsEnd(s, i + 1) ELSE i

\* The place after the white space of s that starts at i (\s*, greedy).
RECURSIVE SpacesEnd(_, _)
SpacesEnd(s, i) ==
    IF i <= Len(s) /\ IsSpace(s[i]) THEN SpacesEnd(s, i + 1) ELSE i

\* The place after the colons and white space of s that start at i ([:\s]*).
RECURSIVE SeparatorsEnd(_, _)
SeparatorsEnd(s, i) ==
    IF i <= Len(s) /\ (s[i] = ":" \/ IsSpace(s[i])) THEN SeparatorsEnd(s, i + 1) ELSE i

\* The place after the number of s that starts with the digit at i
\* (\d+\.?\d*, greedy).
NumberEnd(s, i) ==
    LET j == DigitsEnd(s, i)
    IN  IF j <= Len(s) /\ s[j] = "." THEN DigitsEnd(s, j + 1) ELSE j

\* The number the digits s[i..j] write.
RECURSIVE Natural(_, _, _)
Natural(s, i, j) ==
    IF j < i THEN 0 ELSE Natural(s, i, j - 1) * 10 + DigitValue(s[j])

\* 10 to the power n.
RECURSIVE Pow10(_)
Pow10(n) == IF n = 0 THEN 1 ELSE 10 * Pow10(n - 1)

\* float(match.group(1)) in twentieths, for the number s[i..j-1]; the texts
\* used write multiples of 0.05.
Float(s, i, j) ==
    LET d == DigitsEnd(s, i)
    IN  Natural(s, i, d - 1) * FullConfidence
        + (IF d < j
           THEN (Natural(s, d + 1, j - 1) * FullConfidence) \div Pow10(j - 1 - d)
           ELSE 0)

\* s[k..] starts with sub.
StartsAt(sub, s, k) ==
    /\ k + Len(sub) - 1 <= Len(s)
    /\ \A i \in 1..Len(sub) : s[k + i - 1] = sub[i]

\* The places where r"confidence[:\s]+(\d+\.?\d*)" matches in s.
ConfidenceMatches(s) ==
    {k \in 1..Len(s) :
        /\ StartsAt(STR_confidence, s, k)
        /\ LET p == k + Len(STR_confidence)
               q == SeparatorsEnd(s, p)
           IN  q > p /\ q <= Len(s) /\ IsDigit(s[q])}

\* The places where a number followed by white space and the character c
\* starts in s.
NumberBefore(c, s) ==
    {k \in 1..Len(s) :
        /\ IsDigit(s[k])
        /\ LET e == SpacesEnd(s, NumberEnd(s, k))
           IN  e <= Len(s) /\ s[e] = c}

\* The places where r"(\d+\.?\d*)\s*%" matches in s.
PercentMatches(s) == NumberBefore("%", s)

\* The places where r"(\d+\.?\d*)\s*/\s*1" matches in s.
FractionMatches(s) ==
    {k \in NumberBefore("/", s) :
        LET e == SpacesEnd(s, SpacesEnd(s, NumberEnd(s, k)) + 1)
        IN  e <= Len(s) /\ s[e] = "1"}

\* `value / 100 if value > 1 else value`, in twentieths.
Scaled(value) == IF value > FullConfidence THEN value \div 100 ELSE value

\* BaseAgent._extract_confidence, in twentieths: the first pattern that matches
\* gives the number at its leftmost match; 0.5 if none matches.
ExtractConfidence(content) ==
    LET s == Lower(content)
        first(S) == CHOOSE k \in S : \A j \in S : k <= j
    IN  IF ConfidenceMatches(s) # {}
        THEN LET q == SeparatorsEnd(s, first(ConfidenceMatches(s)) + Len(STR_confidence))
             IN  Scaled(Float(s, q, NumberEnd(s, q)))
        ELSE IF PercentMatches(s) # {}
        THEN LET k == first(PercentMatches(s))
             IN  Scaled(Float(s, k, NumberEnd(s, k)))
        ELSE IF FractionMatches(s) # {}
        THEN LET k == first(FractionMatches(s))
             IN  Scaled(Float(s, k, NumberEnd(s, k)))
        ELSE FullConfidence \div 2

\* The answers of the text-generation service.
TEXT_confidence_08 ==
    <<"C","o","n","f","i","d","e","n","c","e",":"," ","0",".","8">>
TEXT_confidence_150 ==
    <<"c","o","n","f","i","d","e","n","c","e",":"," ","1","5","0">>
TEXT_250_percent ==
    <<"I"," ","a","m"," ","2","5","0","%"," ","s","u","r","e">>
TEXT_not_sure ==
    <<"N","o","t"," ","s","u","r","e">>
TEXT_85_percent ==
    <<"3"," ","s","t","e","p","s",","," ","8","5"," ","%">>
TEXT_10_of_10 ==
    <<"1","0","/","1","0">>
TEXT_escalate ==
    <<"E","s","c","a","l","a","t","e","."," ","C","o","n","f","i","d","e",
      "n","c","e",":"," ","1",".","0">>

ThinkContents ==
    {TEXT_confidence_08, TEXT_confidence_150, TEXT_250_percent, TEXT_not_sure,
     TEXT_85_percent, TEXT_10_of_10, TEXT_escalate}

\* Thought(content, confidence, ..., requires_escalation) as think constructs
\* it from the answer (the reasoning steps and requires_research, which no
\* operation here reads, are left out).
Thought(content) ==
    [content |-> content,
     confidence |-> ExtractConfidence(content),
     requires_escalation |-> Contains(STR_escalate, Lower(content))]

\* The think calls in progress on one agent object that are followed.
MaxThinking == 1

\* The exception a failed litellm.acompletion call raises.
LLMError == "APIConnectionError"

\* BaseAgent.think up to the await of litellm.acompletion: the state is set
\* to THINKING.
ThinkStart(a) ==
    /\ thinking[a] < MaxThinking
    /\ state' = [state EXCEPT ![a] = THINKING]
    /\ thinking' = [thinking EXCEPT ![a] = @ + 1]
    /\ UNCHANGED <<consVars, msgVars, orchVars, runVars>>

\* BaseAgent.think when litellm.acompletion raises: no statement of think
\* catches the exception, so it leaves think with the state as it is.
ThinkFail(a) ==
    /\ thinking[a] > 0
    /\ thinking' = [thinking EXCEPT ![a] = @ - 1]
    /\ state' = state
    /\ ret' = [op |-> "raise", value |-> LLMError, call |-> "think", agent |-> a]
    /\ UNCHANGED <<agents, inbox, projects, tasks, consVars, msgVars, runVars>>

\* BaseAgent.think after litellm.acompletion answered with content: the
\* Thought is built and returned, and the state is set to IDLE.
ThinkReturn(a, content) ==
    /\ thinking[a] > 0
    /\ thinking' = [thinking EXCEPT ![a] = @ - 1]
    /\ state' = [state EXCEPT ![a] = IDLE]
    /\ ret' = [op |-> "think", value |-> Thought(content), agent |-> a]
    /\ UNCHANGED <<agents, inbox, projects, tasks, consVars, msgVars, runVars>>

\* BaseAgent.receive_message: the message is appended to the queue of the
\* agent.
ReceiveMessage(a, message) ==
    /\ Queued(AgentPool) < MaxInbox
    /\ inbox' = [inbox EXCEPT ![a] = Append(@, message)]
    /\ ret' = [op |-> "receive_message", value |-> None, agent |-> a]
    /\ UNCHANGED <<agents, projects, tasks, consVars, msgVars, runVars, agentVars>>

\* BaseAgent.send_message with the default message type and confidence: the
\* message is constructed and returned.
SendMessage(a, receiver, content, new_id) ==
    /\ ret' = [op |-> "send_message",
               value |-> AgentMessage(a, receiver, REQUEST, content, FullConfidence,
                                      None, None, new_id),
               agent |-> a]
    /\ UNCHANGED <<agents, inbox, projects, tasks, consVars, msgVars, runVars, agentVars>>

\* Orchestrator.handle_conflict when the think call of an agent asked raises:
\* thoughts are the thoughts returned before it.  The exception leaves
\* handle_conflict, which catches nothing, and the builder of the call is lost.
HandleConflictFails(conflict_agents, topic, thoughts) ==
    LET thinkers == ConflictThinkers(conflict_agents, agents)
        failed == thinkers[Len(thoughts) + 1]
    IN  /\ Len(thoughts) < Len(thinkers)
        /\ state' = [a \in DOMAIN state |->
                        IF a = failed THEN THINKING
                        ELSE IF \E i \in 1..Len(thoughts) : thinkers[i] = a
                        THEN IDLE ELSE state[a]]
        /\ ret' = [op |-> "raise", value |-> LLMError, call |-> "handle_conflict",
                   agent |-> failed]
        /\ UNCHANGED <<agents, inbox, projects, tasks, consVars, msgVars, runVars, thinking>>

\* The answers the agents asked by handle_conflict get.
ConflictContents == {TEXT_confidence_08, TEXT_confidence_150}

\* The thoughts of up to two agents asked, each read from an answer.
AnswerLists == UNION {[1..n -> {Thought(c) : c \in ConflictContents}] : n \in 0..2}

\* The message another agent sends.
AgentNote ==
    AgentMessage(backend, research, REQUEST, "status?", FullConfidence, None, None, "m1")

\* Two agents are registered; a third agent object is not.
InitAgents ==
    /\ NoConsensus
    /\ NoMessages
    /\ agents = <<research, backend>>
    /\ inbox = [a \in AgentPool |-> <<>>]
    /\ NewAgents(AgentPool)
    /\ projects = <<>>
    /\ tasks = <<>>
    /\ ret = NoReturn
    /\ NoRun

\* The agent objects whose calls are followed one by one.
Callers == {research, security_agent}

NextAgents ==
    \/ \E a \in Callers : ThinkStart(a)
    \/ \E a \in Callers : ThinkFail(a)
    \/ \E a \in Callers, content \in ThinkContents : ThinkReturn(a, content)
    \/ ReceiveMessage(research, AgentNote)
    \/ SendMessage(research, backend, "help", "m2")
    \/ \E conflict_agents \in ConflictLists, thoughts \in AnswerLists :
          HandleConflict(conflict_agents, "api style", thoughts)
    \/ \E conflict_agents \in ConflictLists, thoughts \in AnswerLists :
          HandleConflictFails(conflict_agents, "api style", thoughts)

SpecAgents == InitAgents /\ [][NextAgents]_vars

-----------------------------------------------------------------------------
(* Decisions: a builder is voted on, reviews are coordinated and conflicts
   are handled, while agents register. *)

\* The answers the agents asked by handle_conflict get.
DecisionContents == {TEXT_escalate, TEXT_confidence_08, TEXT_confidence_150}

\* The thoughts of up to two agents asked, each read from an answer.
DecisionThoughts == UNION {[1..n -> {Thought(c) : c \in DecisionContents}] : n \in 0..2}

\* The votes cast on a builder that its creator holds.
DecisionVotes ==
    {v \in VoteInputs : v.voter \in {security_agent, agent_a}
                        /\ v.vote_type \in {APPROVE, REJECT}}

\* The builders on which callers can vote: the one constructed directly and
\* the one coordinate_review returned; the builder of handle_conflict is not
\* returned.
HeldBuilders == {"d1", "change-1"}

NextDecisions ==
    \/ \E name \in {research, security_agent} : RegisterAgent(name)
    \/ \E reviewers \in {<<>>, <<security_agent, research>>} :
          CoordinateReview("change-1", "diff", agent_a, reviewers, "1f0e3dad")
    \/ \E conflict_agents \in ConflictLists, thoughts \in DecisionThoughts :
          HandleConflict(conflict_agents, "api style", thoughts)
    \/ \E vote \in DecisionVotes : decision_id \in HeldBuilders /\ AddVote(vote)

SpecDecisions == InitConsensus /\ [][NextDecisions]_vars

-----------------------------------------------------------------------------
(* The sentinel: SubTasks are assigned while the registry is empty and later,
   and one of the agents that register is named "unknown". *)

\* The agent objects: one named as the sentinel of _select_agent.
SentinelPool == {backend, STR_unknown}

InitSentinel ==
    /\ NoConsensus
    /\ NoMessages
    /\ agents = <<>>
    /\ inbox = [a \in SentinelPool |-> <<>>]
    /\ NewAgents(SentinelPool)
    /\ projects = <<>>
    /\ tasks = <<>>
    /\ ret = NoReturn
    /\ NoRun

NextSentinel ==
    \/ \E name \in SentinelPool : RegisterAgent(name)
    \/ \E name \in SentinelPool : UnregisterAgent(name)
    \/ \E description \in SelectDescriptions :
          /\ Len(tasks) < MaxAssignable
          /\ NewSubTask("t1", description, NoneStr, <<>>)
    \/ \E t \in 1..Len(tasks) : AssignTask(t, "1f0e3dad")

SpecSentinel == InitSentinel /\ [][NextSentinel]_vars

-----------------------------------------------------------------------------
(* Properties of the consensus engine *)

\* A Reject vote with at least one concern from a voter whose name contains
\* "security".
IsSecurityReject(vote) ==
    /\ vote.vote_type = REJECT
    /\ Contains(STR_security, vote.voter)
    /\ Len(vote.concerns) > 0

\* The votes of one type, by position in the vote list.
VotesOfType(vt) == {i \in 1..Len(votes) : votes[i].vote_type = vt}

\* The summed confidence of the recorded votes at the positions in S.
RECURSIVE Weight(_)
Weight(S) ==
    IF S = {} THEN 0
    ELSE LET i == CHOOSE j \in S : TRUE
         IN  votes[i].confidence + Weight(S \ {i})

\* C1 as stated: every add_vote call that passes a Reject vote with a concern
\* from a voter whose name contains "security" leaves get_result().approved
\* false, on every builder.
C1_AnySecurityRejectVetoes ==
    [][\A vote \in VoteInputs :
          (AddVote(vote) /\ IsSecurityReject(vote)) => ~GetResult'.approved]_vars

\* C1 amended: on a builder that allows veto, once a Reject vote with a concern
\* from a voter whose name contains "security" is recorded (it was that voter's
\* first vote), get_result().approved is false in every later state, whatever
\* votes follow.
C1_RecordedSecurityRejectVetoes ==
    (allow_veto /\ \E i \in 1..Len(votes) : IsSecurityReject(votes[i]))
        => (vetoed /\ ~GetResult.approved)

\* C1 witness: the veto was cast first and the Approve votes that followed
\* reach required_approvals on their own.
C1_VetoThenApprovals ==
    /\ Len(votes) = 3
    /\ allow_veto /\ IsSecurityReject(votes[1])
    /\ votes[2].vote_type = APPROVE /\ votes[3].vote_type = APPROVE
    /\ Approved(Weight(VotesOfType(APPROVE)), Weight(VotesOfType(REJECT)))
    /\ ~GetResult.approved

\* C2: the vote list holds at most one vote per voter, and every add_vote call
\* either is a vote of a voter who has one recorded (logged as a duplicate) and
\* changes neither the vote list, nor the veto flag and reason, nor the result,
\* or appends one vote, of a voter who had none, and leaves the recorded votes
\* as they were: the vote kept for a voter is the first one cast.
C2_FirstVotePerVoterKept ==
    [][/\ \A i, j \in 1..Len(votes') :
            votes'[i].voter = votes'[j].voter => i = j
       /\ IF vote_log' = <<"duplicate_vote">>
          THEN /\ votes' = votes
               /\ vetoed' = vetoed
               /\ veto_reason' = veto_reason
               /\ (UNCHANGED vars \/ GetResult' = GetResult)
          ELSE /\ Len(votes') = Len(votes) + 1
               /\ SubSeq(votes', 1, Len(votes)) = votes
               /\ ~HasVoted(votes'[Len(votes')].voter)]_vars

\* C2 witness: the last call was a vote of a voter who had voted, with another
\* type than the recorded one.
C2_DuplicateVoteCast ==
    /\ vote_log = <<"duplicate_vote">>
    /\ Len(votes) = 1

\* C3: without a veto, approved is exactly "approvals >= required_approvals and
\* approvals > rejections" over the confidences of the recorded Approve and
\* Reject votes; Abstain and RequestChanges votes count in neither.
C3_ApprovedIffWeights ==
    ~vetoed =>
        (GetResult.approved <=>
            /\ Weight(VotesOfType(APPROVE)) >= required_approvals * FullConfidence
            /\ Weight(VotesOfType(APPROVE)) > Weight(VotesOfType(REJECT)))

\* C3 witness: an approved decision with a Reject vote and a vote that counts
\* on neither side.
C3_ApprovedOverRejection ==
    /\ ~vetoed
    /\ GetResult.approved
    /\ VotesOfType(REJECT) # {}
    /\ VotesOfType(ABSTAIN) \cup VotesOfType(REQUEST_CHANGES) # {}

\* C3 witness of the boundary: approvals reach required_approvals and equal the
\* rejections, and the decision is not approved.
C3_TieRejected ==
    /\ ~vetoed
    /\ Weight(VotesOfType(APPROVE)) >= required_approvals * FullConfidence
    /\ Weight(VotesOfType(APPROVE)) = Weight(VotesOfType(REJECT))
    /\ ~GetResult.approved

\* C4: a decision is vetoed only if veto is allowed and a recorded Reject vote
\* with at least one concern comes from a voter whose name, in lower case,
\* contains "security".
C4_VetoOnlyBySecurityReject ==
    vetoed =>
        /\ allow_veto
        /\ \E i \in 1..Len(votes) :
              /\ votes[i].vote_type = REJECT
              /\ Len(votes[i].concerns) > 0
              /\ Contains(STR_security, Lower(votes[i].voter))

\* C4 witness: a Reject vote with concerns of a voter outside security and a
\* Reject vote without concerns of a security voter were recorded and set no
\* veto; a later vote did.
C4_VetoAfterNonVetoes ==
    /\ Len(votes) = 3
    /\ vetoed
    /\ votes[1].voter = agent_a /\ votes[1].vote_type = REJECT
    /\ Len(votes[1].concerns) > 0
    /\ votes[2].voter = security_agent /\ votes[2].vote_type = REJECT
    /\ votes[2].concerns = <<>>
    /\ votes[3].voter = Security_Lead

-----------------------------------------------------------------------------
(* Properties of the message envelope *)

\* The message a chain of replies starts from.
RECURSIVE RootOf(_, _)
RootOf(parents, i) == IF parents[i] = 0 THEN i ELSE RootOf(parents, parents[i])

\* The replies are correlated, linked and addressed as C10 says.
RepliesThreaded(msgs, parents) ==
    \A i \in 1..Len(msgs) : parents[i] # 0 =>
        /\ msgs[i].in_reply_to = msgs[parents[i]].message_id
        /\ msgs[i].receiver = msgs[parents[i]].sender
        /\ msgs[RootOf(parents, i)].correlation_id = None =>
              msgs[i].correlation_id = msgs[RootOf(parents, i)].message_id

\* C10: every reply made by create_reply has in_reply_to equal to the
\* message_id of the message it replies to and receiver equal to that message's
\* sender; in a chain from a root without correlation id every reply has the
\* root's message_id as correlation_id; and create_reply changes no field of
\* any message that exists.
C10_RepliesThreaded ==
    [][/\ RepliesThreaded(messages', reply_of')
       /\ \A i \in 1..Len(messages) : messages'[i] = messages[i]]_vars

\* C10 witness: a reply to a reply to a root without correlation id, where the
\* first reply has another message_id than the root.
C10_ReplyToReply ==
    /\ Len(messages) = 3
    /\ reply_of = <<0, 1, 2>>
    /\ messages[1].correlation_id = None
    /\ messages[2].message_id # messages[1].message_id
    /\ messages[3].correlation_id = messages[1].message_id
    /\ messages[3].in_reply_to = messages[2].message_id

-----------------------------------------------------------------------------
(* Properties of the orchestrator *)

\* The SubTask object t has a dependency id that some project holds for a
\* SubTask that is not completed.
UnmetDependency(t) ==
    \E k \in 1..Len(tasks[t].dependencies), i \in 1..Len(projects) :
        /\ tasks[t].dependencies[k] \in DOMAIN projects[i].tasks
        /\ tasks[projects[i].tasks[tasks[t].dependencies[k]]].status # COMPLETED

\* C5 as stated: no step moves a SubTask to status Assigned while one of its
\* dependency tasks is not Completed.
C5_NoAssignedWithUnmetDependency ==
    [][\A t \in 1..Len(tasks) :
          (tasks[t].status # ASSIGNED /\ tasks'[t].status = ASSIGNED)
              => ~UnmetDependency(t)]_vars

\* C6: _dependencies_met(task) is true exactly if every dependency id of the
\* task has status Completed in every project that holds a task of that id;
\* ids that no project holds, and an empty dependency list, put up no
\* condition. This holds of every SubTask in every state, and of the value
\* the last call returned.
DependenciesCompletedWhereFound(t) ==
    \A k \in 1..Len(tasks[t].dependencies), i \in 1..Len(projects) :
        tasks[t].dependencies[k] \in DOMAIN projects[i].tasks
            => tasks[projects[i].tasks[tasks[t].dependencies[k]]].status = COMPLETED

C6_DependenciesMetIffCompletedWhereFound ==
    /\ \A t \in 1..Len(tasks) :
          DependenciesMet(tasks[t]) <=> DependenciesCompletedWhereFound(t)
    /\ ret.op = "_dependencies_met"
          => (ret.value <=> DependenciesCompletedWhereFound(ret.task))

\* C6 witness: _dependencies_met returned false for a SubTask whose dependency
\* id is held by two projects, completed in the first and pending in the
\* second.
C6_CompletedInOneProjectOnly ==
    /\ ret.op = "_dependencies_met"
    /\ ~ret.value
    /\ Len(projects) = 2
    /\ \E k \in 1..Len(tasks[ret.task].dependencies) :
          LET dep_id == tasks[ret.task].dependencies[k]
          IN  /\ dep_id \in DOMAIN projects[1].tasks
              /\ dep_id \in DOMAIN projects[2].tasks
              /\ tasks[projects[1].tasks[dep_id]].status = COMPLETED
              /\ tasks[projects[2].tasks[dep_id]].status = PENDING

\* C6 witness of the other case: _dependencies_met returned true for a SubTask
\* with a dependency id that no project holds.
C6_MissingDependencyMet ==
    /\ ret.op = "_dependencies_met"
    /\ ret.value
    /\ Len(projects) > 0
    /\ tasks[ret.task].dependencies # <<>>
    /\ \A k \in 1..Len(tasks[ret.task].dependencies), i \in 1..Len(projects) :
          tasks[ret.task].dependencies[k] \notin DOMAIN projects[i].tasks

\* sub occurs in s when the case of letters is ignored.
CaseInsensitiveSubstring(sub, s) ==
    \E k \in 0..(Len(s) - Len(sub)) :
        \A j \in 1..Len(sub) : LowerChar(sub[j]) = LowerChar(s[k + j])

\* The agent has a capability tag that occurs in the description.
HasMatchingTag(name, description) ==
    \E c \in 1..Len(Capabilities(name)) :
        CaseInsensitiveSubstring(Capabilities(name)[c], description)

\* The selection C7 describes.
Selected(names, description) ==
    IF names = <<>> THEN STR_unknown
    ELSE IF \E i \in 1..Len(names) : HasMatchingTag(names[i], description)
    THEN names[CHOOSE i \in 1..Len(names) :
                  /\ HasMatchingTag(names[i], description)
                  /\ \A j \in 1..(i - 1) : ~HasMatchingTag(names[j], description)]
    ELSE names[1]

\* The step is an assign_task call that selected an agent for the SubTask
\* object t.
SelectedFor(t) ==
    /\ ret'.op = "assign_task"
    /\ tasks[t].assigned_agent = NoneStr
    /\ tasks'[t].assigned_agent # NoneStr

\* The registries: the agents of the pool, some or all, in any order.
Registries ==
    {names \in UNION {[1..n -> AgentPool] : n \in 0..Cardinality(AgentPool)} :
        \A i, j \in 1..Len(names) : names[i] = names[j] => i = j}

\* _select_agent returns the selection C7 describes for every registry and
\* description.
SelectAgentAgrees ==
    \A names \in Registries, description \in SelectDescriptions :
        SelectAgent(names, description) = Selected(names, description)

\* C7: for every registry and description, _select_agent returns the first
\* agent in registration order with a capability tag that is a
\* case-insensitive substring of the description, the first registered agent
\* if there is none, and "unknown" if the registry is empty; every step leaves
\* one of these registries, an assign_task call gives an unassigned task the
\* agent so selected, and with an empty registry it returns false and neither
\* assigns the task nor sends a message.
C7_SelectsFirstCapable ==
    [][/\ SelectAgentAgrees
       /\ agents' \in Registries
       /\ \A t \in 1..Len(tasks) : SelectedFor(t) =>
            /\ tasks'[t].assigned_agent = Selected(agents, tasks[t].description)
            /\ agents = <<>> =>
                  /\ tasks'[t].assigned_agent = STR_unknown
                  /\ ret'.value = FALSE
                  /\ tasks'[t].status = tasks[t].status
                  /\ inbox' = inbox]_vars

\* C7 witness: assign_task failed on the first SubTask with "unknown" selected
\* from an empty registry; later, with research registered first, the second
\* SubTask, whose description holds backend's tag in capitals, was assigned to
\* backend.
C7_UnknownThenSecondAgent ==
    /\ Len(tasks) >= 2
    /\ tasks[1].assigned_agent = STR_unknown /\ tasks[1].status = PENDING
    /\ Len(agents) >= 2 /\ agents[1] = research
    /\ tasks[2].description = DESC_review_api_design
    /\ tasks[2].assigned_agent = backend /\ tasks[2].status = ASSIGNED
    /\ ret = [op |-> "assign_task", value |-> TRUE]

\* With research registered first and backend second, the step, if it is an
\* assign_task call on an unassigned SubTask described "Design an api for
\* users", assigns the task to the agent name and delivers the Request
\* message to it and to no other agent.
DesignAnApiAssignedTo(name) ==
    \A t \in 1..Len(tasks) :
        (/\ agents = <<research, backend>>
         /\ tasks[t].description = DESC_design_an_api
         /\ SelectedFor(t))
        => /\ tasks'[t].assigned_agent = name
           /\ tasks'[t].status = ASSIGNED
           /\ ret'.value = TRUE
           /\ inbox'[name] # <<>>
           /\ inbox'[name] =
                Append(inbox[name], inbox'[name][Len(inbox'[name])])
           /\ inbox'[name][Len(inbox'[name])].message_type = REQUEST
           /\ inbox'[name][Len(inbox'[name])].receiver = name
           /\ inbox'[name][Len(inbox'[name])].content.description = DESC_design_an_api
           /\ \A other \in AgentPool \ {name} : inbox'[other] = inbox[other]

\* C8 as stated: the task "Design an api for users" goes to backend.
C8_DesignAnApiGoesToBackend == [][DesignAnApiAssignedTo(backend)]_vars

\* C8 amended: with agents registered in the order research (capabilities
\* ["searching documentation"]) then backend (capabilities ["api design"]),
\* assign_task on an unassigned task with description "Design an api for
\* users" assigns the task to research, the first registered agent, and
\* delivers the Request message to research, not to backend: no capability
\* tag is a substring of the description.
C8_DesignAnApiGoesToResearch == [][DesignAnApiAssignedTo(research)]_vars

\* C8 witness: the registry is research then backend, and the last call
\* assigned the task "Design an api for users" to research, whose inbox holds
\* the request while backend's is empty.
C8_ResearchGotTheRequest ==
    /\ agents = <<research, backend>>
    /\ ret = [op |-> "assign_task", value |-> TRUE]
    /\ \E t \in 1..Len(tasks) :
          /\ tasks[t].description = DESC_design_an_api
          /\ tasks[t].assigned_agent = research
          /\ tasks[t].status = ASSIGNED
    /\ Len(inbox[research]) = 1
    /\ inbox[research][1].content.description = DESC_design_an_api
    /\ inbox[backend] = <<>>

\* C9 as stated: a create_project call with a project id that exists leaves
\* the ProjectState stored under that id as it was.
C9_ExistingProjectUnchanged ==
    [][\A project_id \in ProjectIds :
          (/\ ProjectExists(project_id)
           /\ ret'.op = "create_project"
           /\ ret'.value.project_id = project_id)
          => projects'[ProjectIndex(project_id)] = projects[ProjectIndex(project_id)]]_vars

-----------------------------------------------------------------------------
(* Properties of the consensus result *)

\* The places of the recorded votes that set the veto.
VetoingVotes ==
    {i \in 1..Len(votes) :
        /\ allow_veto
        /\ votes[i].vote_type = REJECT
        /\ Len(votes[i].concerns) > 0
        /\ CaseInsensitiveSubstring(STR_security, votes[i].voter)}

\* The places of the recorded Reject and RequestChanges votes.
Dissenters ==
    {i \in 1..Len(votes) : votes[i].vote_type \in {REJECT, REQUEST_CHANGES}}

\* The sequence opinions holds the reasoning of the votes at the places in S,
\* one each, in vote order.
IsReasoningOf(opinions, S) ==
    /\ Len(opinions) = Cardinality(S)
    /\ \A i \in S :
          opinions[Cardinality({j \in S : j <= i})] = votes[i].reasoning

\* C12 as stated: when the builder is vetoed, get_result() has approved false
\* and the veto reason as the first element of dissenting_opinions.
C12_VetoReasonFirstDissent ==
    vetoed =>
        /\ ~GetResult.approved
        /\ GetResult.dissenting_opinions # <<>>
        /\ GetResult.dissenting_opinions[1] = veto_reason

\* C12 amended: when the builder is vetoed, get_result() has approved false,
\* final_decision is the veto reason ("Security veto: " and the first concern
\* of the last vetoing vote recorded), and dissenting_opinions holds the
\* reasoning of the recorded Reject and RequestChanges votes, one each, in
\* vote order, whatever votes were recorded before and after the veto.
C12_VetoReasonIsFinalDecision ==
    vetoed =>
        /\ ~GetResult.approved
        /\ VetoingVotes # {}
        /\ LET last == CHOOSE i \in VetoingVotes : \A j \in VetoingVotes : j <= i
           IN  GetResult.final_decision = <<"Security veto: ", votes[last].concerns[1]>>
        /\ GetResult.final_decision = veto_reason
        /\ IsReasoningOf(GetResult.dissenting_opinions, Dissenters)

\* C12 witness: a vetoed builder with a RequestChanges vote recorded before
\* the vetoing vote and an Approve vote after it.
C12_VetoBetweenOtherVotes ==
    /\ vetoed
    /\ Len(votes) = 3
    /\ votes[1].vote_type = REQUEST_CHANGES
    /\ VetoingVotes = {2}
    /\ votes[3].vote_type = APPROVE
    /\ Len(GetResult.dissenting_opinions) = 2

\* The places of the recorded RequestChanges votes.
ChangeRequests == {i \in 1..Len(votes) : votes[i].vote_type = REQUEST_CHANGES}

\* The number of concerns of the votes at the places in S.
RECURSIVE ConcernCount(_)
ConcernCount(S) ==
    IF S = {} THEN 0
    ELSE LET i == CHOOSE j \in S : TRUE
         IN  Len(votes[i].concerns) + ConcernCount(S \ {i})

\* The sequence conditions holds the concerns of the votes at the places in
\* S, each vote's concerns together and in their order, the votes in vote
\* order.
IsConcernsOf(conditions, S) ==
    /\ Len(conditions) = ConcernCount(S)
    /\ \A i \in S :
          LET before == ConcernCount({j \in S : j < i})
          IN  \A k \in 1..Len(votes[i].concerns) :
                  conditions[before + k] = votes[i].concerns[k]

\* The last add_vote call recorded a RequestChanges vote.
RequestChangesRecorded ==
    /\ vote_log' # <<"duplicate_vote">>
    /\ Len(votes') = Len(votes) + 1
    /\ votes'[Len(votes')].vote_type = REQUEST_CHANGES

\* get_result().conditions holds the concerns of the recorded RequestChanges
\* votes.
ConditionsSurfaced == IsConcernsOf(GetResult.conditions, ChangeRequests)

\* C13 as stated: in every builder state get_result().conditions holds the
\* concerns of the recorded RequestChanges votes in vote order, and recording
\* a RequestChanges vote leaves the approved flag as it was.  (Stated of the
\* steps that record a vote, before and after: the others change no vote.)
C13_ConditionsInEveryState ==
    [][votes' # votes =>
          /\ ConditionsSurfaced
          /\ ConditionsSurfaced'
          /\ RequestChangesRecorded => GetResult'.approved = GetResult.approved]_vars

\* get_result().conditions holds the concerns of the recorded RequestChanges
\* votes, or nothing when the builder is vetoed.
ConditionsSurfacedUnlessVetoed ==
    IF vetoed THEN GetResult.conditions = <<>> ELSE ConditionsSurfaced

\* C13 amended: in every builder state that is not vetoed,
\* get_result().conditions holds the concerns of the recorded RequestChanges
\* votes in vote order (the result of a vetoed builder has no conditions), and
\* in every state recording a RequestChanges vote leaves the approved flag as
\* it was.
C13_ConditionsUnlessVetoed ==
    [][votes' # votes =>
          /\ ConditionsSurfacedUnlessVetoed
          /\ ConditionsSurfacedUnlessVetoed'
          /\ RequestChangesRecorded => GetResult'.approved = GetResult.approved]_vars

\* C13 witness: an approved decision with the concerns of two RequestChanges
\* votes as its conditions, the second of them recorded last.
C13_ApprovedWithConditions ==
    /\ ~vetoed
    /\ Len(votes) = 3
    /\ GetResult.approved
    /\ ChangeRequests = {2, 3}
    /\ Len(GetResult.conditions) = 4
    /\ votes[2].concerns # votes[3].concerns

\* The voters with a recorded vote.
DistinctVoters == {votes[i].voter : i \in 1..Len(votes)}

\* pending_count and is_complete are what C14 says they are.
CompletionCounts ==
    /\ PendingCount >= 0
    /\ \/ PendingCount = required_approvals - Len(votes)
       \/ PendingCount = 0 /\ required_approvals - Len(votes) < 0
    /\ IsComplete <=> (vetoed \/ Cardinality(DistinctVoters) >= required_approvals)

\* C14: in every builder state pending_count is max(0, required_approvals
\* minus the number of recorded votes) and not negative, and is_complete is
\* true exactly when the decision is vetoed or the number of distinct voters
\* recorded is at least required_approvals; no add_vote call makes
\* is_complete false again.  (The counts are stated of the steps that record a
\* vote, before and after: the others change no vote.)
C14_PendingAndComplete ==
    [][/\ votes' # votes => (CompletionCounts /\ CompletionCounts')
       /\ IsComplete => IsComplete']_vars

\* C14 witness: more votes are recorded than required_approvals asks for, so
\* that pending_count is 0 by its floor, and the decision is complete without
\* a veto.
C14_MoreVotesThanRequired ==
    /\ Len(votes) > required_approvals
    /\ ~vetoed
    /\ PendingCount = 0
    /\ IsComplete

\* C14 witness of the other case: the decision is complete by a veto while
\* votes are pending.
C14_CompleteByVeto ==
    /\ vetoed
    /\ Len(votes) < required_approvals
    /\ PendingCount > 0
    /\ IsComplete

-----------------------------------------------------------------------------
(* Properties of routing *)

\* C11: a _route_message call appends the message once to the inbox of every
\* registered agent when it is addressed to "broadcast", once to the inbox of
\* the receiver and to no other when it is addressed to a registered name, and
\* to no inbox, without an error, when it is addressed to any other name; it
\* changes nothing else of an inbox and nothing of the registry.
C11_RoutedToRegisteredOnly ==
    [][ret'.op = "_route_message" =>
          /\ agents' = agents
          /\ \A a \in AgentPool :
                IF /\ Registered(a)
                   /\ ret'.message.receiver \in {a, STR_broadcast}
                THEN /\ Len(inbox'[a]) = Len(inbox[a]) + 1
                     /\ SubSeq(inbox'[a], 1, Len(inbox[a])) = inbox[a]
                     /\ inbox'[a][Len(inbox'[a])] = ret'.message
                ELSE inbox'[a] = inbox[a]]_vars

\* C11 witness: a broadcast was routed to the two registered agents, each of
\* which has it last in its inbox, after a message to one of them; the agent
\* that is not registered has received nothing.
C11_BroadcastToTwo ==
    /\ ret.op = "_route_message"
    /\ ret.message.receiver = STR_broadcast
    /\ Len(agents) = 2
    /\ \A i \in 1..2 : inbox[agents[i]][Len(inbox[agents[i]])] = ret.message
    /\ Len(inbox[agents[1]]) = 2
    /\ Len(inbox[agents[2]]) = 1
    /\ \A a \in AgentPool : ~Registered(a) => inbox[a] = <<>>

\* C11 witness of the drop: a message to a name that is not registered was
\* routed and no inbox holds it.
C11_Dropped ==
    /\ ret.op = "_route_message"
    /\ agents # <<>>
    /\ ~Registered(ret.message.receiver)
    /\ ret.message.receiver # STR_broadcast
    /\ \A a \in AgentPool : inbox[a] = <<>>

-----------------------------------------------------------------------------
(* Properties of assignment *)

\* The agent assign_task is to use for the SubTask object t: the one the task
\* names, or else the one selected for its description.
AgentFor(t) ==
    IF tasks[t].assigned_agent \notin {NoneStr, <<>>}
    THEN tasks[t].assigned_agent
    ELSE Selected(agents, tasks[t].description)

\* The step is what C15 says of a call on t that returns false.
AssignRefused(t) ==
    /\ ~Registered(AgentFor(t))
    /\ inbox' = inbox
    /\ tasks'[t].status = tasks[t].status
    /\ \A u \in 1..Len(tasks) : u # t => tasks'[u] = tasks[u]

\* The step is what C15 says of a call on t that returns true.
AssignDelivered(t) ==
    LET chosen == AgentFor(t)
    IN  /\ Registered(chosen)
        /\ Len(inbox'[chosen]) = Len(inbox[chosen]) + 1
        /\ SubSeq(inbox'[chosen], 1, Len(inbox[chosen])) = inbox[chosen]
        /\ LET message == inbox'[chosen][Len(inbox'[chosen])]
           IN  /\ message.message_type = REQUEST
               /\ message.sender = STR_orchestrator
               /\ message.receiver = chosen
               /\ message.content.task_id = tasks[t].task_id
               /\ message.content.description = tasks[t].description
        /\ \A other \in AgentPool \ {chosen} : inbox'[other] = inbox[other]
        /\ tasks'[t].status = ASSIGNED
        /\ tasks'[t].assigned_agent = chosen
        /\ \A u \in 1..Len(tasks) : u # t => tasks'[u] = tasks[u]

TASK_REVIEW == "review"

\* The transitions of the task state machine that C16 lists for calls on a
\* task that is not polled from the queue.
TaskTransition(from, to) ==
    \/ from = PENDING /\ to = ASSIGNED
    \/ from = ASSIGNED /\ to = IN_PROGRESS
    \/ from = IN_PROGRESS /\ to \in {TASK_REVIEW, COMPLETED, FAILED}
    \/ from = TASK_REVIEW /\ to \in {COMPLETED, FAILED}

\* C16 as stated, of assign_task: every status change that an assign_task
\* call makes to a SubTask is a transition of the task state machine, so that
\* it moves a task to Assigned only from Pending and never changes the status
\* of a Completed or Failed task.
C16_AssignOnlyFromPending ==
    [][ret'.op = "assign_task" =>
          \A t \in 1..Len(tasks) :
              tasks'[t].status # tasks[t].status =>
                  TaskTransition(tasks[t].status, tasks'[t].status)]_vars

-----------------------------------------------------------------------------
(* Properties of reviews *)

\* The registered agents other than the author, in registration order.
NonAuthors(names, author) == SelectSeq(names, LAMBDA n : n # author)

\* The places among the non-authors of the agents with a security role.
SecurityPlaces(others) ==
    {i \in 1..Len(others) : Contains(STR_security, Lower(Role(others[i])))}

\* The least element of a non-empty set of numbers.
Least(S) == CHOOSE i \in S : \A j \in S : i <= j

\* The non-authors without the first of them that has a security role.
RemainingReviewers(others) ==
    IF SecurityPlaces(others) = {} THEN others
    ELSE LET k == Least(SecurityPlaces(others))
         IN  SubSeq(others, 1, k - 1) \o SubSeq(others, k + 1, Len(others))

\* What C17 says of the reviewers selected for an author from a registry.
ReviewersAsDescribed(names, author) ==
    LET reviewers == SelectReviewers(names, author)
        others == NonAuthors(names, author)
        places == SecurityPlaces(others)
        length == IF Len(others) < ReviewerCount THEN Len(others) ELSE ReviewerCount
        rest == IF places = {} THEN reviewers ELSE Tail(reviewers)
    IN  /\ \A i \in 1..Len(reviewers) : reviewers[i] # author
        /\ \A i, j \in 1..Len(reviewers) : reviewers[i] = reviewers[j] => i = j
        /\ Len(reviewers) = length
        /\ places # {} => reviewers[1] = others[Least(places)]
        /\ rest = SubSeq(RemainingReviewers(others), 1, Len(rest))

\* The registries of agents that take part in reviews: the lists of agents
\* without a name twice.
ReviewRegistries ==
    {names \in UNION {[1..n -> ReviewPool] : n \in 0..Cardinality(ReviewPool)} :
        \A i, j \in 1..Len(names) : names[i] = names[j] => i = j}

\* _select_reviewers returns the reviewers C17 describes for every registry
\* and author.
ReviewersAgree ==
    \A names \in ReviewRegistries, author \in ReviewPool \cup Authors :
        ReviewersAsDescribed(names, author)

\* C17: the registry of every state is one of the registries, and for every
\* registry and every author,
\* _select_reviewers returns a list without the author and without a name
\* twice, of length min(2, number of registered agents other than the author),
\* whose first element is the first registered non-author agent with
\* "security" in its lower-cased role when there is one, and whose other
\* elements are the remaining non-authors in registration order.
C17_ReviewersSelected ==
    /\ agents \in ReviewRegistries
    /\ ReviewersAgree

\* A review was coordinated without reviewers for a change of the security
\* agent, with a second security agent registered after another agent: the
\* second security agent comes first, the other agent second.
C17_SecurityLeadBeforeResearch ==
    /\ ret.op = "coordinate_review"
    /\ ret.reviewers = <<>>
    /\ ret.author = security_agent
    /\ Len(agents) = 4
    /\ agents[1] = research
    /\ agents[2] = backend
    /\ SelectReviewers(agents, ret.author) = <<Security_Lead, research>>
    /\ Len(inbox[Security_Lead]) = 1
    /\ Len(inbox[research]) = 1

\* The step is a call of coordinate_review: it leaves the registry alone and
\* the builder without a log event, which no other step of a review does.
ReviewStep ==
    /\ ret'.op = "coordinate_review"
    /\ agents' = agents
    /\ vote_log' = <<>>

\* The reviewers of the call: the list passed, or the selected ones.
ReviewersOfCall ==
    IF ret'.reviewers = <<>> THEN SelectReviewers(agents, ret'.author)
    ELSE ret'.reviewers

\* How often a name is in a list.
Occurrences(names, name) == Cardinality({i \in 1..Len(names) : names[i] = name})

\* The message is a Review message of the orchestrator to the agent about the
\* change.
IsReviewMessage(message, name, change_id, author) ==
    /\ message.sender = STR_orchestrator
    /\ message.receiver = name
    /\ message.message_type = REVIEW
    /\ message.content.change_id = change_id
    /\ message.content.author = author

\* The step appends n Review messages of the call to the inbox of the agent
\* and leaves the rest of the inbox as it was.
ReviewsReceived(name, n) ==
    /\ Len(inbox'[name]) = Len(inbox[name]) + n
    /\ SubSeq(inbox'[name], 1, Len(inbox[name])) = inbox[name]
    /\ \A i \in (Len(inbox[name]) + 1)..Len(inbox'[name]) :
          IsReviewMessage(inbox'[name][i], name, ret'.value, ret'.author)

\* The builder after the step is new: two approvals required, veto allowed,
\* no votes, not vetoed, for the change of the call.
FreshBuilder ==
    /\ decision_id' = ret'.value
    /\ required_approvals' = 2
    /\ allow_veto'
    /\ votes' = <<>>
    /\ ~vetoed'
    /\ veto_reason' = NoneStr

\* An automatic selection sends the author nothing.
AuthorLeftOut ==
    (ret'.reviewers = <<>> /\ ret'.author \in ReviewPool)
        => ReviewsReceived(ret'.author, 0)

\* C18 as stated: every call of coordinate_review returns a new builder with
\* required_approvals 2, veto allowed and no votes, and appends exactly one
\* Review message to the inbox of each reviewer of the call and nothing to
\* any other inbox; an automatic selection sends the author nothing.
C18_OneReviewEach ==
    [][ReviewStep =>
          /\ FreshBuilder
          /\ \A name \in ReviewPool :
                ReviewsReceived(name, IF Occurrences(ReviewersOfCall, name) > 0
                                      THEN 1 ELSE 0)
          /\ AuthorLeftOut]_vars

\* C18, amended: every call of coordinate_review returns a new builder with
\* required_approvals 2, veto allowed and no votes; it appends to the inbox of
\* every registered agent one Review message for each time the agent is named
\* in the reviewers of the call, and nothing to the inbox of an agent that is
\* not registered; an automatic selection sends each selected reviewer exactly
\* one Review message and the author none.
C18_OneReviewPerRegisteredMention ==
    [][ReviewStep =>
          /\ FreshBuilder
          /\ \A name \in ReviewPool :
                ReviewsReceived(name, IF Registered(name)
                                      THEN Occurrences(ReviewersOfCall, name)
                                      ELSE 0)
          /\ ret'.reviewers = <<>> =>
                \A name \in ReviewPool :
                    ReviewsReceived(name, IF Occurrences(ReviewersOfCall, name) > 0
                                          THEN 1 ELSE 0)
          /\ AuthorLeftOut]_vars

\* A review was coordinated with two reviewers named, of which one was not
\* registered: the registered one has the Review message, the other none.
C18_ReviewerNotRegistered ==
    /\ ret.op = "coordinate_review"
    /\ ret.reviewers = <<research, backend>>
    /\ Registered(research)
    /\ ~Registered(backend)
    /\ Len(inbox[research]) = 1
    /\ inbox[research][1].message_type = REVIEW
    /\ inbox[backend] = <<>>
    /\ votes = <<>>
    /\ ~vetoed
    /\ required_approvals = 2

\* A review was coordinated with one reviewer named twice: the reviewer has
\* two Review messages.
C18_ReviewerNamedTwice ==
    /\ ret.op = "coordinate_review"
    /\ ret.reviewers = <<research, research>>
    /\ Registered(research)
    /\ Len(inbox[research]) = 2
    /\ votes = <<>>

-----------------------------------------------------------------------------
(* Properties of conflict handling *)

\* The vote is the vote of the agent that handle_conflict casts for the
\* thought: Approve above 0.6 and Reject otherwise, with the confidence of the
\* thought.
IsVoteFor(vote, agent_name, thought) ==
    /\ vote.voter = agent_name
    /\ vote.vote_type = (IF thought.confidence * 10 > 6 * FullConfidence
                         THEN APPROVE ELSE REJECT)
    /\ vote.confidence = thought.confidence

\* The builder of the call requires as many approvals as agents were passed,
\* and the call returned the final decision of its result.
DecisionOfBuilder ==
    /\ required_approvals = Len(ret.agents)
    /\ ret.value = GetResult.final_decision
    /\ ret.value \in {"Approved", "Rejected"}

\* C19 as stated: after every call of handle_conflict, think was invoked once
\* on each agent passed, the builder holds one vote per agent passed, Approve
\* when the confidence of its thought is above 0.6 and Reject otherwise, with
\* the confidence of the thought; the builder requires as many approvals as
\* agents were passed and the call returned its final decision.
C19_OneVotePerAgent ==
    ret.op = "handle_conflict" =>
        /\ ret.thinkers = ret.agents
        /\ Len(votes) = Len(ret.agents)
        /\ \A i \in 1..Len(votes) : IsVoteFor(votes[i], ret.agents[i], ret.thoughts[i])
        /\ DecisionOfBuilder

\* The places in the list of the agents asked at which an agent is asked for
\* the first time, in order.
FirstAsked(thinkers) ==
    SelectSeq([i \in 1..Len(thinkers) |-> i],
              LAMBDA i : \A j \in 1..(i - 1) : thinkers[j] # thinkers[i])

\* C19, amended: after every call of handle_conflict, think was invoked once
\* for each place in the list passed that names a registered agent, in list
\* order, and on no agent that is not registered; the builder holds one vote
\* per registered agent named, in the order first named, cast from the first
\* thought of the agent: Approve when its confidence is above 0.6 and Reject
\* otherwise, with the confidence of the thought; the builder requires as many
\* approvals as names were passed and the call returned its final decision.
C19_OneVotePerRegisteredAgent ==
    ret.op = "handle_conflict" =>
        /\ ret.thinkers = SelectSeq(ret.agents, Registered)
        /\ Len(ret.thoughts) = Len(ret.thinkers)
        /\ Len(votes) = Len(FirstAsked(ret.thinkers))
        /\ \A k \in 1..Len(votes) :
              LET i == FirstAsked(ret.thinkers)[k]
              IN  IsVoteFor(votes[k], ret.thinkers[i], ret.thoughts[i])
        /\ DecisionOfBuilder

\* A conflict of the security agent and the research agent was handled while
\* the security agent was not registered: the research agent alone was asked,
\* its confidence was 0.6 and its vote is Reject; two approvals are required.
C19_OneOfTwoAsked ==
    /\ ret.op = "handle_conflict"
    /\ ret.agents = <<security_agent, research>>
    /\ ~Registered(security_agent)
    /\ ret.thinkers = <<research>>
    /\ Len(votes) = 1
    /\ votes[1].confidence = CompromiseConfidence
    /\ votes[1].vote_type = REJECT
    /\ required_approvals = 2
    /\ ret.value = "Rejected"

\* A conflict of two registered agents was handled and both found a
\* compromise with confidence 1.0: the decision is "Approved".
C19_BothApprove ==
    /\ ret.op = "handle_conflict"
    /\ ret.agents = <<security_agent, research>>
    /\ Len(votes) = 2
    /\ ret.value = "Approved"

-----------------------------------------------------------------------------
(* Properties of the orchestration loop *)

\* run() has not returned while the orchestrator is running: the loop ends
\* only after stop().
LoopGoesOn == pc = "done" => ~running

\* The SubTask t, queued after an exception was caught, waits on the queue
\* and has not been taken since.
TaskWaitsAfterError(t) ==
    /\ task_outcome[t].result = "queued"
    /\ task_outcome[t].at > 0

\* The k-th message, queued after an exception was caught, waits on the queue.
MessageWaitsAfterError(k) ==
    /\ message_outcome[k].result = "queued"
    /\ message_outcome[k].at > 0

\* C20: an exception raised while run() processes a task or a message does
\* not end the loop: run() has returned only when the orchestrator is no
\* longer running, and every task and every message queued after an exception
\* was caught is taken and processed unless the orchestrator is stopped.
C20_LoopSurvivesExceptions ==
    /\ []LoopGoesOn
    /\ \A t \in 1..Len(RunTasks) :
          TaskWaitsAfterError(t) ~> (task_outcome[t].result # "queued" \/ ~running)
    /\ \A k \in 1..Len(RunMessages) :
          MessageWaitsAfterError(k) ~> (message_outcome[k].result # "queued" \/ ~running)

\* The task with None for its dependencies and the object without receiver
\* each raised an exception in run(); the task t1 and the broadcast, queued
\* after the first of them, were processed: t1 is in progress and the
\* broadcast is in the inbox of the backend agent, and run() goes on.
C20_ProcessedAfterExceptions ==
    /\ running
    /\ pc = "task"
    /\ caught = 2
    /\ task_outcome[3].result = "raised"
    /\ message_outcome[1].result = "raised"
    /\ task_outcome[1] = [at |-> 1, result |-> "in_progress"]
    /\ tasks[1].status = IN_PROGRESS
    /\ message_outcome[2].at > 0
    /\ message_outcome[2].result = "routed"
    /\ Len(inbox[backend]) = 2

\* stop() was called while run() executes its loop.
StoppedInLoop == ~running /\ pc \in {"task", "message"}

\* A step of a stopped loop is the rest of the iteration in progress: from
\* the get of the task queue to the get of the message queue or out of the
\* loop, from the get of the message queue out of the loop.
RestOfIteration ==
    \/ pc' = pc
    \/ pc = "task" /\ pc' \in {"message", "done"}
    \/ pc = "message" /\ pc' = "done"

\* C21: when stop() was called while run() executes its loop, run() returns
\* in the end, whatever the queues hold, and until then it does no more than
\* finish the iteration in progress: at most one more get of the task queue
\* and one more get of the message queue.
C21_StopEndsTheLoop ==
    /\ StoppedInLoop ~> (pc = "done")
    /\ [][StoppedInLoop => RestOfIteration]_vars

\* run() has returned after stop() while the task t2 is blocked and waits on
\* the task queue.
C21_ReturnedWithBlockedTask ==
    /\ pc = "done"
    /\ ~running
    /\ tasks[2].status = BLOCKED
    /\ task_queue = <<2>>
    /\ message_queue = <<>>

-----------------------------------------------------------------------------
(* Properties of decomposition *)

\* The response parses as a list of subtask objects.
IsSubtaskList(response) ==
    /\ response.kind = "json_list"
    /\ \A k \in 1..Len(response.items) : "description" \in DOMAIN response.items[k]

\* The SubTasks the call returned are stored in the project of the call, each
\* under its task id, if there is that project.
ReturnedAreStored ==
    ProjectExists(ret.project_id) =>
        \A k \in 1..Len(ret.value) :
            LET stored == projects[ProjectIndex(ret.project_id)].tasks
                task_id == tasks[ret.value[k]].task_id
            IN  task_id \in DOMAIN stored /\ stored[task_id] = ret.value[k]

\* A call of decompose_task that returned gave one SubTask per element of a
\* response that is a list of subtask objects, and one SubTask with the raw
\* response as its description for any other response, and stored them.
DecomposeReturnsAsDescribed ==
    ret.op = "decompose_task" =>
        /\ IsSubtaskList(ret.response) => Len(ret.value) = Len(ret.response.items)
        /\ ~IsSubtaskList(ret.response) =>
              /\ Len(ret.value) = 1
              /\ tasks[ret.value[1]].description = ret.response.content
        /\ ReturnedAreStored

\* C22: no call of decompose_task raises, whatever the response; the call
\* returns one SubTask per element of a response that is a list of subtask
\* objects, and one SubTask with the raw response as its description for any
\* other response; the SubTasks returned are stored in the named project
\* under their task ids.
C22_DecomposeNeverRaises ==
    /\ ret.op # "raise"
    /\ DecomposeReturnsAsDescribed

\* C23: in every state, every dependency id of every SubTask stored in a
\* ProjectState is the task id of a SubTask stored in that ProjectState.
C23_DependenciesWithinProject ==
    \A p \in 1..Len(projects) :
        \A task_id \in DOMAIN projects[p].tasks :
            LET dependencies == tasks[projects[p].tasks[task_id]].dependencies
            IN  \A k \in 1..Len(dependencies) :
                    dependencies[k] \in DOMAIN projects[p].tasks

-----------------------------------------------------------------------------
(* Properties of the agents *)

\* No pattern of _extract_confidence matches in content.
NoParseableConfidence(content) ==
    /\ ConfidenceMatches(Lower(content)) = {}
    /\ PercentMatches(Lower(content)) = {}
    /\ FractionMatches(Lower(content)) = {}

\* C24: a failure of the text-generation service during think is not
\* propagated: the think call ends returning a Thought with confidence 0.5 and
\* requires_escalation false, and a handle_conflict call in which it happens
\* ends returning a decision string.
C24_LLMFailureNotPropagated ==
    [][/\ (\E a \in Callers : ThinkFail(a)) =>
              /\ ret'.op = "think"
              /\ ret'.value.confidence = FullConfidence \div 2
              /\ ~ret'.value.requires_escalation
       /\ (\E conflict_agents \in ConflictLists, thoughts \in AnswerLists :
              HandleConflictFails(conflict_agents, "api style", thoughts)) =>
              ret'.op = "handle_conflict"]_vars

\* C25: the confidence of the Thought a think call returned lies in [0,1] and
\* is 0.5 when the answer holds no parseable confidence, and the confidence of
\* every vote handle_conflict cast lies in [0,1].
C25_ConfidenceInUnitInterval ==
    /\ ret.op = "think" =>
          /\ ret.value.confidence \in 0..FullConfidence
          /\ NoParseableConfidence(ret.value.content) =>
                ret.value.confidence = FullConfidence \div 2
    /\ \A i \in 1..Len(votes) : votes[i].confidence \in 0..FullConfidence

\* C27: the state of an agent with no think call in progress is IDLE, so that
\* it is THINKING only while a think call is in progress, and receive_message
\* and send_message leave the state of every agent as it is.
C27_IdleBetweenThinkCalls ==
    /\ [](\A a \in DOMAIN state : thinking[a] = 0 => state[a] = IDLE)
    /\ [][(ReceiveMessage(research, AgentNote) \/ SendMessage(research, backend, "help", "m2"))
             => state' = state]_vars

-----------------------------------------------------------------------------
(* Properties of the processing of a polled task *)

\* Outcome (1): the task is Blocked and back on the queue, once, and no
\* message is delivered.
TaskBlocked(t) ==
    /\ tasks'[t].status = BLOCKED
    /\ task_queue' = Append(Tail(task_queue), t)
    /\ inbox' = inbox

\* Outcome (2): the task is InProgress and off the queue, and one Request
\* message is delivered.
TaskStarted(t) ==
    /\ tasks'[t].status = IN_PROGRESS
    /\ task_queue' = Tail(task_queue)
    /\ \E a \in AgentPool :
          /\ Len(inbox'[a]) = Len(inbox[a]) + 1
          /\ inbox'[a][Len(inbox'[a])].message_type = REQUEST
          /\ inbox' = [inbox EXCEPT ![a] = Append(@, inbox'[a][Len(inbox'[a])])]

\* Outcome (3): the task has the status it had and is off the queue.
TaskLeft(t) ==
    /\ tasks'[t].status = tasks[t].status
    /\ task_queue' = Tail(task_queue)

-----------------------------------------------------------------------------
(* Properties of approval *)

\* The confidence of every vote recorded lies in [0,1].
ConfidencesInUnitInterval ==
    \A i \in 1..Len(votes) : votes[i].confidence \in 0..FullConfidence

\* The voters with a recorded Approve vote.
Approvers == {votes[i].voter : i \in {j \in 1..Len(votes) : votes[j].vote_type = APPROVE}}

\* The agents with a Review message in their queue.
Notified ==
    {a \in DOMAIN inbox : \E i \in 1..Len(inbox[a]) : inbox[a][i].message_type = REVIEW}

\* C28: with the confidence of every recorded vote in [0,1], approved implies
\* that at least required_approvals distinct voters have recorded an Approve
\* vote; handle_conflict returns "Approved" only if the names listed are
\* distinct and registered and each of them voted Approve with confidence 1.0;
\* and a review with fewer than two notified reviewers is not approved by
\* votes of those reviewers alone.
C28_ApprovalNeedsEnoughVoters ==
    ConfidencesInUnitInterval =>
        /\ GetResult.approved => Cardinality(Approvers) >= required_approvals
        /\ (ret.op = "handle_conflict" /\ ret.value = "Approved") =>
              /\ \A i, j \in 1..Len(ret.agents) : ret.agents[i] = ret.agents[j] => i = j
              /\ \A i \in 1..Len(ret.agents) :
                    /\ Registered(ret.agents[i])
                    /\ \E k \in 1..Len(votes) :
                          /\ votes[k].voter = ret.agents[i]
                          /\ votes[k].vote_type = APPROVE
                          /\ votes[k].confidence = FullConfidence
        /\ (/\ decision_id = "change-1"
            /\ Cardinality(Notified) < ReviewApprovals
            /\ \A i \in 1..Len(votes) : votes[i].voter \in Notified)
              => ~GetResult.approved

\* handle_conflict returned "Approved" for two registered agents that both
\* answered with confidence 1.0.
C28_BothFullyConfident ==
    /\ ret.op = "handle_conflict"
    /\ ret.value = "Approved"
    /\ Len(ret.agents) = 2
    /\ Len(votes) = 2
    /\ \A i \in 1..2 : votes[i].confidence = FullConfidence

-----------------------------------------------------------------------------
(* Properties of later votes *)

\* The voters with "security" in their lower-cased name.
SecurityVoters == {w \in Voters : Contains(STR_security, Lower(w))}

\* A Reject vote with concerns.
RejectWithConcerns(voter) ==
    [voter |-> voter, vote_type |-> REJECT, confidence |-> FullConfidence,
     reasoning |-> ReasoningOf(REJECT), concerns |-> ConcernsOf(voter)]

\* C29: a veto is set only by the first vote of a voter: the step that sets it
\* records a vote of a voter without a recorded vote; and add_vote of a Reject
\* vote with concerns, from a voter with "security" in its name that has a
\* vote recorded, leaves the veto and get_result() as they are.
C29_VetoOnlyByFirstVote ==
    [][/\ (vetoed' /\ ~vetoed) =>
              /\ Len(votes') = Len(votes) + 1
              /\ ~HasVoted(votes'[Len(votes')].voter)
       /\ (/\ vote_log' = <<"duplicate_vote">>
           /\ \E voter \in SecurityVoters :
                 /\ HasVoted(voter)
                 /\ AddVote(RejectWithConcerns(voter))) =>
              /\ vetoed' = vetoed
              /\ veto_reason' = veto_reason
              /\ GetResult' = GetResult]_vars

\* A security voter approved a decision that allows the veto, and a later
\* vote of it was discarded: the decision is approved, not vetoed.
C29_ApprovedAfterLaterVote ==
    /\ vote_log = <<"duplicate_vote">>
    /\ allow_veto
    /\ ~vetoed
    /\ Len(votes) = 1
    /\ votes[1].voter = security_agent
    /\ votes[1].vote_type = APPROVE
    /\ GetResult.approved

-----------------------------------------------------------------------------
(* Properties of the sentinel *)

\* C30: assign_task on a SubTask without an assigned agent, with no agent
\* registered, returns false and leaves assigned_agent = "unknown"; every
\* assign_task on a SubTask with assigned_agent = "unknown" keeps that agent
\* and returns false, whatever agents are registered, unless an agent named
\* "unknown" is registered.
C30_UnknownSticks ==
    [][\A t \in 1..Len(tasks) :
          AssignTask(t, "1f0e3dad") =>
              /\ (agents = <<>> /\ ~TruthyStr(tasks[t].assigned_agent)) =>
                    /\ tasks'[t].assigned_agent = STR_unknown
                    /\ ret'.value = FALSE
              /\ tasks[t].assigned_agent = STR_unknown =>
                    /\ tasks'[t].assigned_agent = STR_unknown
                    /\ ~Registered(STR_unknown) =>
                          /\ ret'.value = FALSE
                          /\ tasks'[t].status = tasks[t].status
                          /\ inbox' = inbox]_vars

\* assign_task has returned false for a SubTask left with "unknown", with an
\* agent registered whose capability matches the description.
C30_RefusedWithAgentRegistered ==
    /\ ret = [op |-> "assign_task", value |-> FALSE]
    /\ agents = <<backend>>
    /\ Len(tasks) = 1
    /\ tasks[1].assigned_agent = STR_unknown
    /\ tasks[1].status = PENDING
    /\ SelectAgent(agents, tasks[1].description) = backend

====
